---- MODULE Spec2Model ----
(***************************************************************************)
(* A model of jfabello/http-test-server: the HTTPTestServer lifecycle      *)
(* (constructor, start(), stop() and the node:http server events they      *)
(* listen to) and the per-request sessions of #processRequest.             *)
(***************************************************************************)
EXTENDS Integers, Sequences, FiniteSets, TLC

\* ------------------------------------------------------------------ bounds
\* Number of promises start() and stop() may create in one behaviour.
MaxPromises == 4
\* Number of serverState values stateLog keeps.
MaxLog == 5
\* Number of connections the server accepts in one behaviour.
MaxSessions == 1
\* Number of times one interval fires in one session.
MaxTicks == 2
\* Number of request body bytes one session receives.
MaxBody == 3
\* Largest response.writableHighWaterMark, in bytes.
MaxChunkSize == 3
\* Largest size of the big random file, in bytes.
MaxSource == 4

\* ------------------------------------------------------- program constants
CREATED == "CREATED"
STARTING == "STARTING"
LISTENING == "LISTENING"
STOPPING == "STOPPING"
STOPPED == "STOPPED"

ServerStates == {CREATED, STARTING, LISTENING, STOPPING, STOPPED}

ERROR_HTTP_TEST_SERVER_HOST_TYPE_INVALID == "ERROR_HTTP_TEST_SERVER_HOST_TYPE_INVALID"
ERROR_HTTP_TEST_SERVER_HOST_INVALID == "ERROR_HTTP_TEST_SERVER_HOST_INVALID"
ERROR_HTTP_TEST_SERVER_PORT_TYPE_INVALID == "ERROR_HTTP_TEST_SERVER_PORT_TYPE_INVALID"
ERROR_HTTP_TEST_SERVER_PORT_OUT_OF_BOUNDS == "ERROR_HTTP_TEST_SERVER_PORT_OUT_OF_BOUNDS"
ERROR_HTTP_TEST_SERVER_NOT_IN_STARTABLE_STATE == "ERROR_HTTP_TEST_SERVER_NOT_IN_STARTABLE_STATE"
ERROR_HTTP_TEST_SERVER_NOT_IN_STOPPABLE_STATE == "ERROR_HTTP_TEST_SERVER_NOT_IN_STOPPABLE_STATE"

\* defaults.SERVER_PORT
SERVER_PORT == 8080

\* The ports a valid instance is constructed with: 0 asks for an OS-assigned
\* port; the port the OS assigns then.
ConstructedPorts == {0, SERVER_PORT}
EphemeralPort == 49152

\* The OS error codes a failing listen or close reports.
SystemErrorCodes == {"EADDRINUSE", "EACCES"}

\* null for a promise field or a handle
NULL == 0

\* The byte values of the model.
Bytes == {1, 2}

\* defaults.PATTERN_STRING, PATTERN_SIZE and PATTERN_STRING_REPEAT, scaled to
\* the byte values and body sizes of the model.
PATTERN_STRING == <<1>>
PATTERN_SIZE == 3
PATTERN_STRING_REPEAT == 2

\* JSON.stringify(defaults.JSON_OBJECT) as bytes: the byte 2 stands for a
\* JSON text of the fixture object, the byte 1 for a JSON text of another
\* value.
JSON_TEXT == <<2>>

\* A Buffer variable: null, or a buffer holding bytes.
NullBuffer == [null |-> TRUE, bytes |-> <<>>]
BufferOf(b) == [null |-> FALSE, bytes |-> b]

VARIABLES
    serverState,         \* #serverState
    serverPort,          \* #serverPort
    serverStartPromise,  \* #serverStartPromise: a promise id, or NULL
    serverStopPromise,   \* #serverStopPromise: a promise id, or NULL
    promises,            \* the promises created so far: id -> [kind, status, value]
    listeners,           \* #serverInstance's once-listeners, per event, in registration order
    native,              \* #serverInstance itself: "idle", "binding", "bound", "closing"
    lastCall,            \* what the last call of start() or stop() gave back to its caller
    listenCalls,         \* number of #serverInstance.listen() calls issued
    closeCalls,          \* number of #serverInstance.close() calls issued
    startOpPromise,      \* the promise returned by the start() that began the latest start operation
    stopOpPromise,       \* the promise returned by the stop() that began the latest stop operation
    startOpPrevious,     \* the state the instance had just before that start()
    errorSeen,           \* #serverInstance has emitted an 'error' in this behaviour
    stateLog,            \* the values serverState took, in order, while no 'error' was emitted
    sess,                \* the request sessions: one #processRequest closure per connection
    crashed,             \* an exception left an event handler uncaught: the process has ended
    options              \* the argument of the constructor call, NoOptions before it

lifecycleVars == <<serverState, serverPort, serverStartPromise, serverStopPromise, promises,
                   listeners, native, lastCall, listenCalls, closeCalls,
                   startOpPromise, stopOpPromise, startOpPrevious, errorSeen, stateLog>>

\* ------------------------------------------------------------- promises
\* new Promise(...): the next free id, pending.
NewPromise(kind) == [kind |-> kind, status |-> "pending", value |-> "none"]

\* resolve(value) and reject(value) settle a pending promise and are no-ops on
\* a settled one.
Settle(ps, p, status, value) ==
    IF ps[p].status = "pending"
    THEN [ps EXCEPT ![p] = [@ EXCEPT !.status = status, !.value = value]]
    ELSE ps

\* createErrorFromSystemErrorCode(error["code"]): the error class of the code.
createErrorFromSystemErrorCode(code) ==
    CASE code = "EADDRINUSE" -> "ERROR_ADDRESS_IN_USE"
      [] code = "EACCES" -> "ERROR_PERMISSION_DENIED"
      [] OTHER -> "ERROR_UNKNOWN"

\* ------------------------------------------------- the once-listeners
\* A listener is what its closure captured: the promise of its operation
\* and, for the error listeners, previousState.
ListeningListener(p) == [of |-> "start", previousState |-> "none", promise |-> p]
StartErrorListener(prev, p) == [of |-> "start", previousState |-> prev, promise |-> p]
CloseListener(p) == [of |-> "stop", previousState |-> "none", promise |-> p]
StopErrorListener(prev, p) == [of |-> "stop", previousState |-> prev, promise |-> p]

\* The part of the instance the listeners write.
Inst(st, port, ps) == [state |-> st, port |-> port, promises |-> ps]

\* the listening listener as if it resolved without moving to LISTENING
onListening_keepsState(l, in, boundPort) ==
    Inst(in.state, boundPort, Settle(in.promises, l.promise, "fulfilled", LISTENING))

\* once("listening") of start(): records the bound address, moves to
\* LISTENING, resolves.
onListening(l, in, boundPort) ==
    Inst(LISTENING, boundPort, Settle(in.promises, l.promise, "fulfilled", LISTENING))

\* the error listener as if it rejected without restoring previousState
onError_keepsState(l, in, code) ==
    Inst(in.state, in.port,
         Settle(in.promises, l.promise, "rejected", createErrorFromSystemErrorCode(code)))

\* once("error") of start() and of stop(): back to previousState, rejects.
onError(l, in, code) ==
    Inst(l.previousState, in.port,
         Settle(in.promises, l.promise, "rejected", createErrorFromSystemErrorCode(code)))

\* the close listener as if it resolved without moving to STOPPED
onClose_keepsState(l, in) ==
    Inst(in.state, in.port, Settle(in.promises, l.promise, "fulfilled", STOPPED))

\* once("close") of stop(): moves to STOPPED, resolves.
onClose(l, in) ==
    Inst(STOPPED, in.port, Settle(in.promises, l.promise, "fulfilled", STOPPED))

\* emit as if the listeners had been registered with prependOnceListener: the
\* latest registered runs first
RECURSIVE Emit_latestFirst(_, _, _, _)
Emit_latestFirst(event, ls, in, arg) ==
    IF ls = <<>> THEN in
    ELSE LET l == ls[Len(ls)]
             out == CASE event = "listening" -> onListening(l, in, arg)
                      [] event = "error" -> onError(l, in, arg)
                      [] event = "close" -> onClose(l, in)
         IN Emit_latestFirst(event, SubSeq(ls, 1, Len(ls) - 1), out, arg)

\* emit(event): every listener registered for the event runs, in registration
\* order; a once-listener is removed as it runs.
RECURSIVE Emit(_, _, _, _)
Emit(event, ls, in, arg) ==
    IF ls = <<>> THEN in
    ELSE LET l == Head(ls)
             out == CASE event = "listening" -> onListening(l, in, arg)
                      [] event = "error" -> onError(l, in, arg)
                      [] event = "close" -> onClose(l, in)
         IN Emit(event, Tail(ls), out, arg)

\* ------------------------------------------------------------ constructor
\* The state after new HTTPTestServer({serverHost, serverPort}) with valid
\* options: no socket is bound, no promise exists.
Constructed(port) ==
    /\ serverState = CREATED
    /\ serverPort = port
    /\ serverStartPromise = NULL
    /\ serverStopPromise = NULL
    /\ promises = <<>>
    /\ listeners = [listening |-> <<>>, error |-> <<>>, close |-> <<>>]
    /\ native = "idle"
    /\ lastCall = [op |-> "constructor", outcome |-> "returned", promise |-> NULL,
                   error |-> "none", began |-> FALSE]
    /\ listenCalls = 0
    /\ closeCalls = 0
    /\ startOpPromise = NULL
    /\ stopOpPromise = NULL
    /\ startOpPrevious = "none"
    /\ errorSeen = FALSE
    /\ stateLog = <<CREATED>>

\* stateLog after a step that leaves the instance in state st.
Logged(st, err) ==
    IF err THEN <<>>
    ELSE IF st # serverState /\ Len(stateLog) < MaxLog THEN Append(stateLog, st)
    ELSE stateLog

\* What a call gave back: began tells a call that began an operation from one
\* that returned the stored promise.
Began(op, p) == [op |-> op, outcome |-> "returned", promise |-> p, error |-> "none", began |-> TRUE]
Returned(op, p) == [op |-> op, outcome |-> "returned", promise |-> p, error |-> "none", began |-> FALSE]
Threw(op, e) == [op |-> op, outcome |-> "threw", promise |-> NULL, error |-> e, began |-> FALSE]

\* ------------------------------------------------- constructor argument
\* A JavaScript value as the constructor tests it: what typeof gives, the
\* characters of a string, the number and whether it is an integer.
Undefined == [type |-> "undefined", chars |-> <<>>, number |-> 0, integer |-> FALSE]
NullValue == [type |-> "object", chars |-> <<>>, number |-> 0, integer |-> FALSE]
Num(n) == [type |-> "number", chars |-> <<>>, number |-> n, integer |-> TRUE]
Fraction(n) == [type |-> "number", chars |-> <<>>, number |-> n, integer |-> FALSE]
Str(s) == [type |-> "string", chars |-> s, number |-> 0, integer |-> FALSE]
NotPassed == [type |-> "none", chars |-> <<>>, number |-> 0, integer |-> FALSE]

\* No constructor call yet.
NoOptions == [serverHost |-> NotPassed, serverPort |-> NotPassed]

\* defaults.SERVER_HOST
SERVER_HOST == <<"1", "2", "7", ".", "0", ".", "0", ".", "1">>

\* The hosts and ports the constructor is called with.
HostValues ==
    {Undefined, NullValue, Num(1234)} \cup
    {Str(s) : s \in {<<"1", "2", "7", ".", "0", ".", "0", ".", "1">>,
                     <<"l", "o", "c", "a", "l", "h", "o", "s", "t">>,
                     <<"w", "w", "w", ".", "e", "x", "a", "m", "p", "l", "e", ".", "c", "o", "m">>,
                     <<"m", "y", "-", "h", "o", "s", "t">>,
                     <<"1", "9", "2", ".", "1", "6", "8", ".", "0">>,
                     <<"1", "9", "2", ".", "1", "6", "8", ".", "0", ".", "2", "5", "6">>,
                     <<"h", "o", "s", "t", "n", "a", "m", "e", "!">>,
                     <<"h", "o", "s", "t", "_", "n", "a", "m", "e">>,
                     <<"w", "w", "w", ".", "h", "o", "s", "t", "_", "n", "a", "m", "e", ".", "c", "o", "m">>,
                     <<"w", "w", "w", ".", "h", "o", "s", "t", "n", "a", "m", "e", ".", "1", "2", "3">>,
                     <<"-", "h", "o", "s", "t">>}}
PortValues ==
    {Undefined, NullValue, Str(<<"1", "2", "3", "4">>), Fraction(3),
     Num(0 - 10), Num(0 - 1), Num(0), Num(8000), Num(SERVER_PORT), Num(65535), Num(65536)}
Options == [serverHost : HostValues, serverPort : PortValues]

\* The character classes of the regexes.
Digits == {"0", "1", "2", "3", "4", "5", "6", "7", "8", "9"}
Letters ==
    {"a", "b", "c", "d", "e", "f", "g", "h", "i", "j", "k", "l", "m",
     "n", "o", "p", "q", "r", "s", "t", "u", "v", "w", "x", "y", "z",
     "A", "B", "C", "D", "E", "F", "G", "H", "I", "J", "K", "L", "M",
     "N", "O", "P", "Q", "R", "S", "T", "U", "V", "W", "X", "Y", "Z"}

\* The parts of s between the occurrences of sep.
RECURSIVE Split(_, _)
Split(s, sep) ==
    IF \A i \in 1..Len(s) : s[i] # sep THEN <<s>>
    ELSE LET i == CHOOSE k \in 1..Len(s) : s[k] = sep /\ \A j \in 1..(k - 1) : s[j] # sep
         IN <<SubSeq(s, 1, i - 1)>> \o Split(SubSeq(s, i + 1, Len(s)), sep)

\* regexes.HOST_NAME: letters, digits and hyphens, no hyphen first or last.
HOST_NAME(s) ==
    /\ Len(s) >= 1
    /\ s[1] \in Letters \cup Digits
    /\ s[Len(s)] \in Letters \cup Digits
    /\ \A i \in 1..Len(s) : s[i] \in Letters \cup Digits \cup {"-"}

\* regexes.FQDN: one or more host name labels, each followed by a dot, then
\* one or more letters.
FQDN(s) ==
    LET l == Split(s, ".")
    IN /\ Len(l) >= 2
       /\ \A i \in 1..(Len(l) - 1) : HOST_NAME(l[i])
       /\ Len(l[Len(l)]) >= 1
       /\ \A i \in 1..Len(l[Len(l)]) : l[Len(l)][i] \in Letters

\* One part of regexes.IPV4_ADDRESS: 1?[0-9]{1,2} | 2[0-4][0-9] | 25[0-5].
Octet(s) ==
    \/ Len(s) \in {1, 2} /\ \A i \in 1..Len(s) : s[i] \in Digits
    \/ Len(s) = 3 /\ s[1] = "1" /\ s[2] \in Digits /\ s[3] \in Digits
    \/ Len(s) = 3 /\ s[1] = "2" /\ s[2] \in {"0", "1", "2", "3", "4"} /\ s[3] \in Digits
    \/ Len(s) = 3 /\ s[1] = "2" /\ s[2] = "5" /\ s[3] \in {"0", "1", "2", "3", "4", "5"}

\* regexes.IPV4_ADDRESS: four such parts separated by dots.
IPV4_ADDRESS(s) ==
    LET l == Split(s, ".")
    IN Len(l) = 4 /\ \A i \in 1..4 : Octet(l[i])

\* The value a destructured option has: the default when it is undefined.
OptionOr(value, default) == IF value.type = "undefined" THEN default ELSE value

\* the constructor's checks as if the port were checked before the host
constructor_portFirst(o) ==
    LET host == OptionOr(o.serverHost, Str(SERVER_HOST))
        port == OptionOr(o.serverPort, Num(SERVER_PORT))
    IN IF ~(port.type = "number" /\ port.integer)
       THEN ERROR_HTTP_TEST_SERVER_PORT_TYPE_INVALID
       ELSE IF port.number < 0 \/ port.number > 65535
       THEN ERROR_HTTP_TEST_SERVER_PORT_OUT_OF_BOUNDS
       ELSE IF host.type # "string"
       THEN ERROR_HTTP_TEST_SERVER_HOST_TYPE_INVALID
       ELSE IF /\ ~IPV4_ADDRESS(host.chars)
               /\ ~HOST_NAME(host.chars)
               /\ ~FQDN(host.chars)
       THEN ERROR_HTTP_TEST_SERVER_HOST_INVALID
       ELSE "none"

\* The checks of the constructor, lines 146-160: the error thrown, "none"
\* when the options are valid.
constructor(o) ==
    LET host == OptionOr(o.serverHost, Str(SERVER_HOST))
        port == OptionOr(o.serverPort, Num(SERVER_PORT))
    IN IF host.type # "string"
       THEN ERROR_HTTP_TEST_SERVER_HOST_TYPE_INVALID
       ELSE IF /\ ~IPV4_ADDRESS(host.chars)
               /\ ~HOST_NAME(host.chars)
               /\ ~FQDN(host.chars)
       THEN ERROR_HTTP_TEST_SERVER_HOST_INVALID
       ELSE IF ~(port.type = "number" /\ port.integer)
       THEN ERROR_HTTP_TEST_SERVER_PORT_TYPE_INVALID
       ELSE IF port.number < 0 \/ port.number > 65535
       THEN ERROR_HTTP_TEST_SERVER_PORT_OUT_OF_BOUNDS
       ELSE "none"

\* No instance: new HTTPTestServer(...) has not been called.
NotConstructed ==
    /\ serverState = "none"
    /\ serverPort = NULL
    /\ serverStartPromise = NULL
    /\ serverStopPromise = NULL
    /\ promises = <<>>
    /\ listeners = [listening |-> <<>>, error |-> <<>>, close |-> <<>>]
    /\ native = "none"
    /\ lastCall = [op |-> "none", outcome |-> "none", promise |-> NULL,
                   error |-> "none", began |-> FALSE]
    /\ listenCalls = 0
    /\ closeCalls = 0
    /\ startOpPromise = NULL
    /\ stopOpPromise = NULL
    /\ startOpPrevious = "none"
    /\ errorSeen = FALSE
    /\ stateLog = <<>>
    /\ options = NoOptions

\* new HTTPTestServer(o), lines 145-171: the first failing check throws and
\* nothing is created; else http.createServer(), the fields are assigned and
\* the state is CREATED.
new(o) ==
    /\ lastCall.op = "none"
    /\ options' = o
    /\ IF constructor(o) # "none"
       THEN /\ lastCall' = Threw("constructor", constructor(o))
            /\ UNCHANGED <<serverState, serverPort, serverStartPromise, serverStopPromise,
                           promises, listeners, native, listenCalls, closeCalls,
                           startOpPromise, stopOpPromise, startOpPrevious, errorSeen,
                           stateLog>>
       ELSE /\ native' = "idle"
            /\ serverPort' = OptionOr(o.serverPort, Num(SERVER_PORT)).number
            /\ serverState' = CREATED
            /\ lastCall' = Returned("constructor", NULL)
            /\ stateLog' = <<CREATED>>
            /\ UNCHANGED <<serverStartPromise, serverStopPromise, promises, listeners,
                           listenCalls, closeCalls, startOpPromise, stopOpPromise,
                           startOpPrevious, errorSeen>>

\* ---------------------------------------------------------------- start()
\* start() as if line 179 tested STARTING only
startReturnsExisting_onlyStarting(st) == st = STARTING

\* start() as if line 179 also returned the stored promise in STOPPING
startReturnsExisting_alsoStopping(st) == st = STARTING \/ st = LISTENING \/ st = STOPPING

\* lines 179-181: the states in which start() returns the stored promise
startReturnsExisting(st) == st = STARTING \/ st = LISTENING

\* start() as if line 183 let only a CREATED server start
startThrows_rejectsStopped(st) == st # CREATED

\* start() as if line 183 let a STOPPING server start
startThrows_allowsStopping(st) == st # CREATED /\ st # STOPPED /\ st # STOPPING

\* lines 183-185: the states in which start() throws
startThrows(st) == st # CREATED /\ st # STOPPED

\* #serverInstance.listen(): throws ERR_SERVER_ALREADY_LISTEN on a server that
\* holds a handle, starts binding otherwise.
listenThrows == native = "binding" \/ native = "bound"

start ==
    IF startReturnsExisting(serverState)
    THEN /\ lastCall' = Returned("start", serverStartPromise)
         /\ UNCHANGED <<serverState, serverPort, serverStartPromise, serverStopPromise, promises,
                        listeners, native, listenCalls, closeCalls,
                        startOpPromise, stopOpPromise, startOpPrevious, errorSeen, stateLog>>
    ELSE IF startThrows(serverState)
    THEN /\ lastCall' = Threw("start", ERROR_HTTP_TEST_SERVER_NOT_IN_STARTABLE_STATE)
         /\ UNCHANGED <<serverState, serverPort, serverStartPromise, serverStopPromise, promises,
                        listeners, native, listenCalls, closeCalls,
                        startOpPromise, stopOpPromise, startOpPrevious, errorSeen, stateLog>>
    ELSE /\ Len(promises) < MaxPromises
         /\ LET previousState == serverState
                p == Len(promises) + 1
            IN /\ serverState' = STARTING
               /\ serverStartPromise' = p
               /\ listeners' = [listeners EXCEPT
                        !.listening = Append(@, ListeningListener(p)),
                        !.error = Append(@, StartErrorListener(previousState, p))]
               /\ listenCalls' = listenCalls + 1
               /\ IF listenThrows
                  THEN \* the executor throws: the promise is rejected with the exception
                       /\ promises' = Append(promises, [kind |-> "start", status |-> "rejected",
                                                        value |-> "ERR_SERVER_ALREADY_LISTEN"])
                       /\ native' = native
                  ELSE /\ promises' = Append(promises, NewPromise("start"))
                       /\ native' = "binding"
               /\ lastCall' = Began("start", p)
               /\ startOpPromise' = p
               /\ startOpPrevious' = previousState
               /\ stateLog' = Logged(STARTING, errorSeen)
               /\ UNCHANGED <<serverPort, serverStopPromise, closeCalls, stopOpPromise, errorSeen>>

\* ----------------------------------------------------------------- stop()
\* stop() as if line 217 tested STOPPING only
stopReturnsExisting_onlyStopping(st) == st = STOPPING

\* line 217 as if it tested STOPPED only
stopReturnsExisting_onlyStopped(st) == st = STOPPED

\* lines 217-219: the states in which stop() returns the stored promise
stopReturnsExisting(st) == st = STOPPING \/ st = STOPPED

\* stop() as if line 221 let a STARTING server stop
stopThrows_allowsStarting(st) == st # LISTENING /\ st # STARTING

\* lines 221-223: the states in which stop() throws
stopThrows(st) == st # LISTENING

stop ==
    IF stopReturnsExisting(serverState)
    THEN /\ lastCall' = Returned("stop", serverStopPromise)
         /\ UNCHANGED <<serverState, serverPort, serverStartPromise, serverStopPromise, promises,
                        listeners, native, listenCalls, closeCalls,
                        startOpPromise, stopOpPromise, startOpPrevious, errorSeen, stateLog>>
    ELSE IF stopThrows(serverState)
    THEN /\ lastCall' = Threw("stop", ERROR_HTTP_TEST_SERVER_NOT_IN_STOPPABLE_STATE)
         /\ UNCHANGED <<serverState, serverPort, serverStartPromise, serverStopPromise, promises,
                        listeners, native, listenCalls, closeCalls,
                        startOpPromise, stopOpPromise, startOpPrevious, errorSeen, stateLog>>
    ELSE /\ Len(promises) < MaxPromises
         /\ LET previousState == serverState
                p == Len(promises) + 1
            IN /\ serverState' = STOPPING
               /\ serverStopPromise' = p
               /\ promises' = Append(promises, NewPromise("stop"))
               /\ listeners' = [listeners EXCEPT
                        !.close = Append(@, CloseListener(p)),
                        !.error = Append(@, StopErrorListener(previousState, p))]
               \* #serverInstance.close(): stops accepting; 'close' follows once
               \* every connection has ended
               /\ native' = "closing"
               /\ closeCalls' = closeCalls + 1
               /\ lastCall' = Began("stop", p)
               /\ stopOpPromise' = p
               /\ stateLog' = Logged(STOPPING, errorSeen)
               /\ UNCHANGED <<serverPort, serverStartPromise, listenCalls, startOpPromise,
                              startOpPrevious, errorSeen>>

\* the bound port as if the address of the server repeated the requested port
BoundPort_asRequested(port) == port

\* --------------------------------------------- events of #serverInstance
\* The port the OS binds for listen({port}).
BoundPort(port) == IF port = 0 THEN EphemeralPort ELSE port

\* 'listening': the bind completed.
serverEmitsListening ==
    /\ native = "binding"
    /\ native' = "bound"
    /\ LET out == Emit("listening", listeners.listening,
                       Inst(serverState, serverPort, promises), BoundPort(serverPort))
       IN /\ serverState' = out.state
          /\ serverPort' = out.port
          /\ promises' = out.promises
          /\ stateLog' = Logged(out.state, errorSeen)
    /\ listeners' = [listeners EXCEPT !.listening = <<>>]
    /\ UNCHANGED <<serverStartPromise, serverStopPromise, lastCall, listenCalls, closeCalls,
                   startOpPromise, stopOpPromise, startOpPrevious, errorSeen>>

\* 'error': a failed bind (the server is idle again), or an error of a
\* server that is bound or closing. An 'error' nobody listens to is an
\* uncaught exception: the process ends and the model stops there.
serverEmitsError(code) ==
    /\ native # "idle"
    /\ listeners.error # <<>>
    /\ native' = IF native = "binding" THEN "idle" ELSE native
    /\ LET out == Emit("error", listeners.error,
                       Inst(serverState, serverPort, promises), code)
       IN /\ serverState' = out.state
          /\ serverPort' = out.port
          /\ promises' = out.promises
    /\ listeners' = [listeners EXCEPT !.error = <<>>]
    /\ errorSeen' = TRUE
    /\ stateLog' = Logged(serverState, TRUE)
    /\ UNCHANGED <<serverStartPromise, serverStopPromise, lastCall, listenCalls, closeCalls,
                   startOpPromise, stopOpPromise, startOpPrevious>>

\* 'close': the server has stopped listening and every connection has ended.
serverEmitsClose ==
    /\ native = "closing"
    /\ \A s \in DOMAIN sess : sess[s].phase \notin {"open", "closing"}
    /\ native' = "idle"
    /\ LET out == Emit("close", listeners.close,
                       Inst(serverState, serverPort, promises), "none")
       IN /\ serverState' = out.state
          /\ serverPort' = out.port
          /\ promises' = out.promises
          /\ stateLog' = Logged(out.state, errorSeen)
    /\ listeners' = [listeners EXCEPT !.close = <<>>]
    /\ UNCHANGED <<serverStartPromise, serverStopPromise, lastCall, listenCalls, closeCalls,
                   startOpPromise, stopOpPromise, startOpPrevious, errorSeen>>

\* ------------------------------------------------------ request sessions
Sessions == 1..MaxSessions

\* The six handle variables of #processRequest (lines 267-272).
Timers == {"silentTimeoutTimer", "noisyRejectionSendResponseTimer",
           "noisyRejectionSendResponseInterval", "noisyTimeoutSendResponseTimer",
           "noisyTimeoutSendResponseInterval", "noisyTimeoutTimer"}
Intervals == {"noisyRejectionSendResponseInterval", "noisyTimeoutSendResponseInterval"}

\* The URL paths requested.
Paths == {"/silentrejection", "/silenttimeout", "/noisyrejection", "/noisytimeout",
          "/silentresponse", "/stop", "/"}
TimedPaths == {"/silenttimeout", "/noisyrejection", "/noisytimeout"}

\* The routes that answer through writeResponseBody, and the three of them
\* that validate the request first.
CheckPaths == {"/checkpattern", "/checkstring", "/checkjson"}
WriterPaths == {"/bigrandomfile"} \cup CheckPaths

\* The ten paths #processRequest names.
NamedPaths == (Paths \ {"/"}) \cup WriterPaths

\* Every path requested: the named ones, "/", and two that no route names.
AllPaths == NamedPaths \cup {"/", "/STOP", "/other"}

\* request.method and request.headers["content-type"] ("none": no such header).
Methods == {"GET", "POST", "post"}
ContentTypes == {"none", "application/octet-stream", "text/plain", "application/json"}

\* What a handler reads from its surroundings when it runs: the request
\* head, response.writableHighWaterMark, defaults.BIG_FILE_SIZE, and the
\* number of response.write calls the transport takes before one returns
\* false. The session keeps what the handler read.
NoEnv == [method |-> "none", contentType |-> "unread", hwm |-> 0, size |-> 0, accepts |-> 0]
Envs == [method : Methods, contentType : ContentTypes, hwm : 1..MaxChunkSize,
         size : 1..MaxSource, accepts : 0..MaxSource]

\* A session before its connection is accepted. handle is the closure's
\* variable (NULL or a handle), run is what the runtime does with the timer
\* behind it, cleared counts the clearTimeout/clearInterval calls on it.
FreeSession ==
    [phase |-> "free",            \* "free", "open", "closing" (socket destroyed,
                                  \* its 'close' not emitted yet), "closed"
     path |-> "none",
     registered |-> FALSE,        \* lines 318-698 ran: data, end, close handlers exist
     reqEnded |-> FALSE,          \* the request emitted 'end'
     reqDestroyed |-> FALSE,      \* request.destroy() was called
     reqClosed |-> FALSE,         \* the request emitted 'close'
     resClosed |-> FALSE,         \* the response emitted 'close'
     handle |-> [t \in Timers |-> NULL],
     run |-> [t \in Timers |-> "none"],
     cleared |-> [t \in Timers |-> 0],
     head |-> 0,                  \* status of writeHead, 0 before it
     resContentType |-> "none",   \* the Content-Type header set on the response
     periodic |-> 0,              \* response.write calls of the periodic line
     last |-> 0,                  \* response.write calls of "Last chunk!\n"
     lastCallback |-> FALSE,      \* the callback of the last write is outstanding
     page |-> 0,                  \* response.write calls of an HTML page
     ended |-> FALSE,             \* response.end() was called
     destroys |-> 0,              \* request.destroy() and response.destroy() calls
     dispatched |-> 0,            \* runs of the request close handler
     abortedTimed |-> FALSE,      \* the client aborted while a timer was pending
     env |-> NoEnv,               \* what the running handler reads, NoEnv between handlers
     received |-> <<>>,           \* the body bytes the 'data' events delivered, in order
     requestBodyArrayOfBuffers |-> [null |-> FALSE, chunks |-> <<>>],
     requestBodyBufferSize |-> 0,
     requestBodyBuffer |-> NullBuffer,
     behaviors |-> <<>>,          \* the behaviors executed, in order
     method |-> "none",           \* request.method as a check route read it
     contentType |-> "unread",    \* the content-type header as a check route read it
     message |-> "none",          \* the text passed to response.end(message)
     contentLength |-> 0,         \* the Content-Length header set, 0 before it
     maxChunkSize |-> 0,          \* response.writableHighWaterMark as the writer read it
     size |-> 0,                  \* BIG_FILE_SIZE / responseBodyBufferSize
     pointer |-> 0,               \* responseBodyBufferPointer
     remaining |-> 0,             \* responseBodyRemainingBytes
     wrote |-> <<>>,              \* the response.write calls of the writer: offset, size,
                                  \* was the response under backpressure, the result
     sent |-> <<>>,               \* the bytes of the echoed chunks written, in order
     blocked |-> FALSE,           \* a write returned false and no 'drain' came since
     drainListeners |-> 0,        \* once("drain") listeners registered on the response
     ends |-> 0,                  \* response.end() calls
     endedBlocked |-> FALSE,      \* response.end() was called under backpressure
     errored |-> FALSE,           \* an error handler of the session has run
     threw |-> FALSE]             \* an exception left a handler of the session

\* setTimeout / setInterval assigned to handle variable t.
Schedule(r, t) == [r EXCEPT !.handle[t] = 1, !.run[t] = "pending"]

\* clearTimeout(x) / clearInterval(x) for handle variable t: nothing when x is
\* null, else the timer behind it is cancelled if it is still pending.
Cancel(r, t) ==
    IF r.handle[t] = NULL THEN r
    ELSE [r EXCEPT !.run[t] = IF @ = "pending" THEN "cancelled" ELSE @,
                   !.cleared[t] = @ + 1]

\* a block of lines 701-743 as if it cleared without resetting x to null
clearOne_keepsRecord(r, t) == Cancel(r, t)

\* One "if (x !== null) { clear(x); x = null; }" block of lines 701-743.
clearOne(r, t) ==
    IF r.handle[t] # NULL THEN [Cancel(r, t) EXCEPT !.handle[t] = NULL] ELSE r

\* clearTimersAndIntervals, lines 701-743.
clearTimersAndIntervals(r) ==
    clearOne(clearOne(clearOne(clearOne(clearOne(clearOne(r,
        "silentTimeoutTimer"),
        "noisyRejectionSendResponseInterval"),
        "noisyRejectionSendResponseTimer"),
        "noisyTimeoutSendResponseInterval"),
        "noisyTimeoutSendResponseTimer"),
        "noisyTimeoutTimer")

\* response.on("close"), lines 695-698.
onResponseClose(r) == clearTimersAndIntervals([r EXCEPT !.resClosed = TRUE])

\* request.destroy(): a no-op on a destroyed request, else the request is
\* destroyed without an error and takes the socket with it.
destroyRequest(r) ==
    LET d == [r EXCEPT !.destroys = @ + 1]
    IN IF r.reqDestroyed \/ r.reqClosed THEN d
       ELSE [d EXCEPT !.reqDestroyed = TRUE,
                      !.phase = IF @ = "open" THEN "closing" ELSE @]

\* response.destroy(): destroys the socket.
destroyResponse(r) ==
    [r EXCEPT !.destroys = @ + 1, !.phase = IF @ = "open" THEN "closing" ELSE @]

\* the request error handler as if it destroyed the request without cancel-all
onRequestError_noCancel(r) == destroyRequest([r EXCEPT !.errored = TRUE])

\* request.on("error"), lines 278-285: cancel-all, then request.destroy().
onRequestError(r) == destroyRequest(clearTimersAndIntervals([r EXCEPT !.errored = TRUE]))

\* the response error handler as if it destroyed the response without cancel-all
onResponseError_noCancel(r) == destroyResponse([r EXCEPT !.errored = TRUE])

\* response.on("error"), lines 288-295: cancel-all, then response.destroy().
onResponseError(r) == destroyResponse(clearTimersAndIntervals([r EXCEPT !.errored = TRUE]))

\* request.on("data"), lines 318-321.
onRequestData(r, chunk) ==
    [r EXCEPT !.requestBodyArrayOfBuffers.chunks = Append(@, chunk),
              !.requestBodyBufferSize = @ + Len(chunk)]

\* Buffer.concat as if it joined the buffers of the list last to first
RECURSIVE BufferConcat_reversed(_)
BufferConcat_reversed(list) ==
    IF list = <<>> THEN <<>> ELSE BufferConcat_reversed(Tail(list)) \o Head(list)

\* Buffer.concat(list): the bytes of the buffers of the list, in list order.
RECURSIVE BufferConcat(_)
BufferConcat(list) ==
    IF list = <<>> THEN <<>> ELSE Head(list) \o BufferConcat(Tail(list))

\* request.on("end"), lines 324-332.
onRequestEnd(r) ==
    IF r.requestBodyBufferSize > 0
    THEN [r EXCEPT !.reqEnded = TRUE,
                   !.requestBodyBuffer = BufferOf(BufferConcat(r.requestBodyArrayOfBuffers.chunks)),
                   !.requestBodyArrayOfBuffers = [null |-> TRUE, chunks |-> <<>>]]
    ELSE [r EXCEPT !.reqEnded = TRUE]

\* response.end().
End(r) == [r EXCEPT !.ended = TRUE, !.ends = @ + 1, !.endedBlocked = @ \/ r.blocked]

\* response.write(chunk) of a writer: false on a response that has closed,
\* else what the transport reports.
WriteResult(r) == ~r.resClosed /\ r.env.accepts > 0

\* The transport after one more write.
Written(r) == [r EXCEPT !.env.accepts = IF @ > 0 THEN @ - 1 ELSE 0]

\* buffer.subarray(from, to)
subarray(b, from, to) == SubSeq(b, from + 1, to)

\* The buffer the writer of a check route reads: requestBodyBuffer (lines
\* 480, 544), responseBodyBuffer (line 625).
ResponseSource(r) == IF r.path = "/checkjson" THEN JSON_TEXT ELSE r.requestBodyBuffer.bytes

\* the writer of /bigrandomfile as if every chunk had the max chunk size
RECURSIVE writeRandomBody_fullChunks(_)
writeRandomBody_fullChunks(r) ==
    IF r.remaining > 0
    THEN LET responseBodyChunkSize == r.maxChunkSize
             result == WriteResult(r)
             w == [Written(r) EXCEPT
                     !.wrote = Append(@, [at |-> r.size - r.remaining,
                                          size |-> responseBodyChunkSize,
                                          blocked |-> r.blocked, result |-> result]),
                     !.remaining = @ - responseBodyChunkSize]
         IN IF result = FALSE
            THEN [w EXCEPT !.drainListeners = @ + 1, !.blocked = TRUE]
            ELSE writeRandomBody_fullChunks(w)
    ELSE End(r)

\* writeResponseBody of /bigrandomfile, lines 406-430.
RECURSIVE writeRandomBody(_)
writeRandomBody(r) ==
    IF r.remaining > 0
    THEN LET responseBodyChunkSize ==
                 IF r.remaining > r.maxChunkSize THEN r.maxChunkSize ELSE r.remaining
             result == WriteResult(r)
             w == [Written(r) EXCEPT
                     !.wrote = Append(@, [at |-> r.size - r.remaining,
                                          size |-> responseBodyChunkSize,
                                          blocked |-> r.blocked, result |-> result]),
                     !.remaining = @ - responseBodyChunkSize]
         IN IF result = FALSE
            THEN [w EXCEPT !.drainListeners = @ + 1, !.blocked = TRUE]
            ELSE writeRandomBody(w)
    ELSE End(r)

\* the writer as if it advanced the pointer only after an accepted write
RECURSIVE writeResponseBody_advanceOnAccept(_)
writeResponseBody_advanceOnAccept(r) ==
    IF r.pointer < r.size
    THEN LET responseBodyChunkSize ==
                 IF r.size - r.pointer < r.maxChunkSize THEN r.size - r.pointer
                 ELSE r.maxChunkSize
             result == WriteResult(r)
             w == [Written(r) EXCEPT
                     !.wrote = Append(@, [at |-> r.pointer, size |-> responseBodyChunkSize,
                                          blocked |-> r.blocked, result |-> result]),
                     !.sent = @ \o subarray(ResponseSource(r), r.pointer,
                                            r.pointer + responseBodyChunkSize)]
         IN IF result = FALSE
            THEN [w EXCEPT !.drainListeners = @ + 1, !.blocked = TRUE]
            ELSE writeResponseBody_advanceOnAccept(
                     [w EXCEPT !.pointer = @ + responseBodyChunkSize])
    ELSE End(r)

\* the writer as if it went on writing after a write returned false
RECURSIVE writeResponseBody_ignoresBackpressure(_)
writeResponseBody_ignoresBackpressure(r) ==
    IF r.pointer < r.size
    THEN LET responseBodyChunkSize ==
                 IF r.size - r.pointer < r.maxChunkSize THEN r.size - r.pointer
                 ELSE r.maxChunkSize
             result == WriteResult(r)
             w == [Written(r) EXCEPT
                     !.wrote = Append(@, [at |-> r.pointer, size |-> responseBodyChunkSize,
                                          blocked |-> r.blocked, result |-> result]),
                     !.sent = @ \o subarray(ResponseSource(r), r.pointer,
                                            r.pointer + responseBodyChunkSize),
                     !.pointer = @ + responseBodyChunkSize]
         IN IF result = FALSE
            THEN writeResponseBody_ignoresBackpressure([w EXCEPT !.blocked = TRUE])
            ELSE writeResponseBody_ignoresBackpressure(w)
    ELSE End(r)

\* the writer as if it ended the response right after a write returned false
RECURSIVE writeResponseBody_endsOnBackpressure(_)
writeResponseBody_endsOnBackpressure(r) ==
    IF r.pointer < r.size
    THEN LET responseBodyChunkSize ==
                 IF r.size - r.pointer < r.maxChunkSize THEN r.size - r.pointer
                 ELSE r.maxChunkSize
             result == WriteResult(r)
             w == [Written(r) EXCEPT
                     !.wrote = Append(@, [at |-> r.pointer, size |-> responseBodyChunkSize,
                                          blocked |-> r.blocked, result |-> result]),
                     !.sent = @ \o subarray(ResponseSource(r), r.pointer,
                                            r.pointer + responseBodyChunkSize),
                     !.pointer = @ + responseBodyChunkSize]
         IN IF result = FALSE
            THEN IF w.pointer < w.size
                 THEN [w EXCEPT !.drainListeners = @ + 1, !.blocked = TRUE]
                 ELSE End([w EXCEPT !.blocked = TRUE])
            ELSE writeResponseBody_endsOnBackpressure(w)
    ELSE End(r)

\* writeResponseBody of /checkpattern, /checkstring and /checkjson, lines
\* 466-493, 530-557 and 611-638.
RECURSIVE writeResponseBody(_)
writeResponseBody(r) ==
    IF r.pointer < r.size
    THEN LET responseBodyChunkSize ==
                 IF r.size - r.pointer < r.maxChunkSize THEN r.size - r.pointer
                 ELSE r.maxChunkSize
             result == WriteResult(r)
             w == [Written(r) EXCEPT
                     !.wrote = Append(@, [at |-> r.pointer, size |-> responseBodyChunkSize,
                                          blocked |-> r.blocked, result |-> result]),
                     !.sent = @ \o subarray(ResponseSource(r), r.pointer,
                                            r.pointer + responseBodyChunkSize),
                     !.pointer = @ + responseBodyChunkSize]
         IN IF result = FALSE
            THEN [w EXCEPT !.drainListeners = @ + 1, !.blocked = TRUE]
            ELSE writeResponseBody(w)
    ELSE End(r)

\* 'drain' of the response: the once-listener registered by the writer runs.
RECURSIVE RunDrainListeners(_, _)
RunDrainListeners(r, k) ==
    IF k = 0 THEN r
    ELSE RunDrainListeners(IF r.path = "/bigrandomfile" THEN writeRandomBody(r)
                           ELSE writeResponseBody(r), k - 1)

onDrain(r) ==
    RunDrainListeners([r EXCEPT !.blocked = FALSE, !.drainListeners = 0], r.drainListeners)

\* string.toUpperCase() of a method name
toUpperCase(m) == IF m = "post" THEN "POST" ELSE m

\* Buffer.alloc(size, fill): size bytes, the fill repeated as needed.
BufferAlloc(size, fill) == [i \in 1..size |-> fill[((i - 1) % Len(fill)) + 1]]

\* string.repeat(count)
StringRepeat(str, count) == [i \in 1..(Len(str) * count) |-> str[((i - 1) % Len(str)) + 1]]

\* JSON.parse of the body text, then lodash.isEqual with defaults.JSON_OBJECT:
\* "error" when the text is no JSON text.
JsonParse(bytes) ==
    IF bytes = JSON_TEXT THEN "fixture"
    ELSE IF bytes = <<1>> THEN "other"
    ELSE "error"

\* response.writeHead(400); response.end(), lines 447-448 and 511-512.
BadRequest(r) == End([r EXCEPT !.head = 400])

\* #sendPlainTextResponseWithLogging(response, statusCode, message), lines 752-757.
sendPlainTextResponseWithLogging(r, statusCode, message) ==
    End([r EXCEPT !.resContentType = "text/plain; charset=UTF-8",
                  !.head = statusCode, !.message = message])

\* The /checkpattern and /checkstring behaviors, lines 437-498 and 501-562:
\* one condition of four tests that short-circuit; Buffer.compare throws a
\* TypeError on a null requestBodyBuffer.
checkEcho(r, contentType, patternBuffer, contentLength) ==
    LET m == [r EXCEPT !.method = r.env.method]
        c == [m EXCEPT !.contentType = r.env.contentType]
    IN IF toUpperCase(r.env.method) # "POST" THEN BadRequest(m)
       ELSE IF r.env.contentType = "none" \/ r.env.contentType # contentType THEN BadRequest(c)
       ELSE IF r.requestBodyBuffer.null THEN [c EXCEPT !.threw = TRUE]
       ELSE IF r.requestBodyBuffer.bytes # patternBuffer THEN BadRequest(c)
       ELSE writeResponseBody([c EXCEPT !.head = 200,
                                        !.resContentType = contentType,
                                        !.contentLength = contentLength,
                                        !.pointer = 0,
                                        !.size = Len(r.requestBodyBuffer.bytes),
                                        !.maxChunkSize = r.env.hwm])

\* the /checkjson behavior as if the body were parsed before the header is tested
checkJson_parsesFirst(r) ==
    LET m == [r EXCEPT !.method = r.env.method]
        c == [m EXCEPT !.contentType = r.env.contentType]
        requestBodyObject == IF r.requestBodyBuffer.null THEN "error"
                             ELSE JsonParse(r.requestBodyBuffer.bytes)
    IN IF toUpperCase(r.env.method) # "POST"
       THEN sendPlainTextResponseWithLogging(m, 400, "The HTTP request method is not POST.")
       ELSE IF requestBodyObject = "error"
       THEN sendPlainTextResponseWithLogging(c, 400,
                "The HTTP request body is not parseable as JSON.")
       ELSE IF r.env.contentType = "none" \/ r.env.contentType # "application/json"
       THEN sendPlainTextResponseWithLogging(c, 400,
                "The HTTP request \"Content-Type\" header is not \"application/json\".")
       ELSE IF requestBodyObject # "fixture"
       THEN sendPlainTextResponseWithLogging(c, 400,
                "The HTTP request body JSON object does not match the pattern JSON object.")
       ELSE writeResponseBody([c EXCEPT !.head = 200,
                                        !.resContentType = "application/json",
                                        !.contentLength = Len(JSON_TEXT),
                                        !.pointer = 0,
                                        !.size = Len(JSON_TEXT),
                                        !.maxChunkSize = r.env.hwm])

\* The /checkjson behavior, lines 565-643.
checkJson(r) ==
    LET m == [r EXCEPT !.method = r.env.method]
        c == [m EXCEPT !.contentType = r.env.contentType]
        requestBodyObject == IF r.requestBodyBuffer.null THEN "error"
                             ELSE JsonParse(r.requestBodyBuffer.bytes)
    IN IF toUpperCase(r.env.method) # "POST"
       THEN sendPlainTextResponseWithLogging(m, 400, "The HTTP request method is not POST.")
       ELSE IF r.env.contentType = "none" \/ r.env.contentType # "application/json"
       THEN sendPlainTextResponseWithLogging(c, 400,
                "The HTTP request \"Content-Type\" header is not \"application/json\".")
       ELSE IF requestBodyObject = "error"
       THEN sendPlainTextResponseWithLogging(c, 400,
                "The HTTP request body is not parseable as JSON.")
       ELSE IF requestBodyObject # "fixture"
       THEN sendPlainTextResponseWithLogging(c, 400,
                "The HTTP request body JSON object does not match the pattern JSON object.")
       ELSE writeResponseBody([c EXCEPT !.head = 200,
                                        !.resContentType = "application/json",
                                        !.contentLength = Len(JSON_TEXT),
                                        !.pointer = 0,
                                        !.size = Len(JSON_TEXT),
                                        !.maxChunkSize = r.env.hwm])

\* The /bigrandomfile behavior, lines 393-434.
bigRandomFile(r) ==
    writeRandomBody([r EXCEPT !.head = 200,
                              !.resContentType = "application/octet-stream",
                              !.contentLength = r.env.size,
                              !.size = r.env.size,
                              !.remaining = r.env.size,
                              !.maxChunkSize = r.env.hwm])

\* the /silentresponse behavior as if it answered like the default route
silentResponse_welcomes(r) ==
    End([r EXCEPT !.resContentType = "text/html; charset=UTF-8", !.head = 200,
                  !.page = @ + 1])

\* The /silentresponse behavior, lines 646-656: writeHead(204), end().
silentResponse(r) == End([r EXCEPT !.head = 204])

\* the pathname as if the routes were matched without regard to case
pathname_ignoresCase(r) == IF r.path = "/STOP" THEN "/stop" ELSE r.path

\* url.pathname, line 264.
pathname(r) == r.path

\* A behavior of #processRequest begins.
Behave(r, name) == [r EXCEPT !.behaviors = Append(@, name)]

\* response.setHeader("Content-Type", value); response.writeHead(status)
writeHead(r, contentType, status) == [r EXCEPT !.resContentType = contentType, !.head = status]

\* request.on("close"), lines 335-687: the behavior of the path. The call of
\* this.stop() in the "/stop" behavior is made by the action that runs this
\* handler.
onRequestClose(r) ==
    LET d == [r EXCEPT !.dispatched = @ + 1]
    IN CASE pathname(r) = "/noisyrejection" ->
              Schedule(Schedule(
                  writeHead(Behave(d, "/noisyrejection"), "text/plain; charset=UTF-8", 200),
                  "noisyRejectionSendResponseInterval"),
                  "noisyRejectionSendResponseTimer")
         [] pathname(r) = "/noisytimeout" ->
              Schedule(Schedule(Schedule(
                  writeHead(Behave(d, "/noisytimeout"), "text/plain; charset=UTF-8", 200),
                  "noisyTimeoutSendResponseInterval"),
                  "noisyTimeoutSendResponseTimer"),
                  "noisyTimeoutTimer")
         [] pathname(r) = "/bigrandomfile" -> bigRandomFile(Behave(d, "/bigrandomfile"))
         [] pathname(r) = "/checkpattern" ->
              checkEcho(Behave(d, "/checkpattern"), "application/octet-stream",
                        BufferAlloc(PATTERN_SIZE, PATTERN_STRING), PATTERN_SIZE)
         [] pathname(r) = "/checkstring" ->
              checkEcho(Behave(d, "/checkstring"), "text/plain",
                        StringRepeat(PATTERN_STRING, PATTERN_STRING_REPEAT),
                        Len(r.requestBodyBuffer.bytes))
         [] pathname(r) = "/checkjson" -> checkJson(Behave(d, "/checkjson"))
         [] pathname(r) = "/silentresponse" -> silentResponse(Behave(d, "/silentresponse"))
         [] pathname(r) = "/stop" ->
              End([writeHead(Behave(d, "/stop"), "text/html; charset=UTF-8", 200)
                      EXCEPT !.page = @ + 1])
         [] OTHER ->
              End([writeHead(Behave(d, "default"), "text/html; charset=UTF-8", 200)
                      EXCEPT !.page = @ + 1])

\* The request stream closes: 'close' runs the handler registered for it.
requestCloses(r) ==
    LET c == [r EXCEPT !.reqClosed = TRUE]
    IN IF r.registered THEN onRequestClose(c) ELSE c

\* The socket of the session closes. node:http emits, in this order and with
\* no timer running in between: 'close' on the response; then, on a request
\* that has not closed yet, 'error' (connection reset; not when the code
\* destroyed the request itself) and 'close'.
socketCloses(r) ==
    LET a == IF r.resClosed THEN r
             ELSE IF r.registered THEN onResponseClose(r)
             ELSE [r EXCEPT !.resClosed = TRUE]
        b == IF ~a.reqClosed /\ ~a.reqDestroyed THEN onRequestError(a) ELSE a
        c == IF ~b.reqClosed THEN requestCloses(b) ELSE b
    IN [c EXCEPT !.phase = "closed"]

\* #processRequest as if the silent timeout path destroyed the request at once
processRequest_destroysAtOnce(path) ==
    LET r == [FreeSession EXCEPT !.phase = "open", !.path = path]
    IN CASE pathname(r) = "/silentrejection" ->
              destroyRequest(Behave(r, "/silentrejection"))
         [] pathname(r) = "/silenttimeout" ->
              destroyRequest(Schedule(Behave(r, "/silenttimeout"), "silentTimeoutTimer"))
         [] OTHER -> [r EXCEPT !.registered = TRUE]

\* #processRequest as if the silent rejection path did not return at line 301
processRequest_fallsThrough(path) ==
    LET r == [FreeSession EXCEPT !.phase = "open", !.path = path]
    IN CASE pathname(r) = "/silentrejection" ->
              [destroyRequest(Behave(r, "/silentrejection")) EXCEPT !.registered = TRUE]
         [] pathname(r) = "/silenttimeout" ->
              Schedule(Behave(r, "/silenttimeout"), "silentTimeoutTimer")
         [] OTHER -> [r EXCEPT !.registered = TRUE]

\* The synchronous part of #processRequest, lines 253-315 and 318-698.
processRequest(path) ==
    LET r == [FreeSession EXCEPT !.phase = "open", !.path = path]
    IN CASE pathname(r) = "/silentrejection" ->
              destroyRequest(Behave(r, "/silentrejection"))
         [] pathname(r) = "/silenttimeout" ->
              Schedule(Behave(r, "/silenttimeout"), "silentTimeoutTimer")
         [] OTHER -> [r EXCEPT !.registered = TRUE]

\* response.write(line) from a timer or interval callback reaches the socket
\* only while neither the response nor its socket is destroyed or closed;
\* otherwise it returns false and nothing is sent.
Writable(r) == r.phase = "open" /\ ~r.resClosed

\* the timer callbacks as if the abort timer of /noisytimeout ended the response
timerCallback_abortEnds(r, t) ==
    CASE t = "silentTimeoutTimer" -> destroyRequest(r)
      [] t = "noisyRejectionSendResponseInterval" ->
           IF Writable(r) THEN [r EXCEPT !.periodic = @ + 1] ELSE r
      [] t = "noisyRejectionSendResponseTimer" ->
           [Cancel(r, "noisyRejectionSendResponseInterval") EXCEPT
               !.handle["noisyRejectionSendResponseInterval"] = NULL,
               !.last = IF Writable(r) THEN @ + 1 ELSE @, !.lastCallback = TRUE]
      [] t = "noisyTimeoutSendResponseInterval" ->
           IF Writable(r) THEN [r EXCEPT !.periodic = @ + 1] ELSE r
      [] t = "noisyTimeoutSendResponseTimer" ->
           [Cancel([r EXCEPT !.last = IF Writable(r) THEN @ + 1 ELSE @],
                   "noisyTimeoutSendResponseInterval") EXCEPT
               !.handle["noisyTimeoutSendResponseInterval"] = NULL]
      [] t = "noisyTimeoutTimer" -> End(r)

\* the timer callbacks as if the duration timer of /noisyrejection wrote the
\* last chunk without stopping the interval
timerCallback_keepsInterval(r, t) ==
    CASE t = "silentTimeoutTimer" -> destroyRequest(r)
      [] t = "noisyRejectionSendResponseInterval" ->
           IF Writable(r) THEN [r EXCEPT !.periodic = @ + 1] ELSE r
      [] t = "noisyRejectionSendResponseTimer" ->
           [r EXCEPT !.last = IF Writable(r) THEN @ + 1 ELSE @, !.lastCallback = TRUE]
      [] t = "noisyTimeoutSendResponseInterval" ->
           IF Writable(r) THEN [r EXCEPT !.periodic = @ + 1] ELSE r
      [] t = "noisyTimeoutSendResponseTimer" ->
           [Cancel([r EXCEPT !.last = IF Writable(r) THEN @ + 1 ELSE @],
                   "noisyTimeoutSendResponseInterval") EXCEPT
               !.handle["noisyTimeoutSendResponseInterval"] = NULL]
      [] t = "noisyTimeoutTimer" -> destroyResponse(r)

\* the timer callbacks as if the silent timeout timer only logged
timerCallback_silentKeepsOpen(r, t) ==
    CASE t = "silentTimeoutTimer" -> r
      [] t = "noisyRejectionSendResponseInterval" ->
           IF Writable(r) THEN [r EXCEPT !.periodic = @ + 1] ELSE r
      [] t = "noisyRejectionSendResponseTimer" ->
           [Cancel(r, "noisyRejectionSendResponseInterval") EXCEPT
               !.handle["noisyRejectionSendResponseInterval"] = NULL,
               !.last = IF Writable(r) THEN @ + 1 ELSE @, !.lastCallback = TRUE]
      [] t = "noisyTimeoutSendResponseInterval" ->
           IF Writable(r) THEN [r EXCEPT !.periodic = @ + 1] ELSE r
      [] t = "noisyTimeoutSendResponseTimer" ->
           [Cancel([r EXCEPT !.last = IF Writable(r) THEN @ + 1 ELSE @],
                   "noisyTimeoutSendResponseInterval") EXCEPT
               !.handle["noisyTimeoutSendResponseInterval"] = NULL]
      [] t = "noisyTimeoutTimer" -> destroyResponse(r)

\* The callback of timer or interval t, lines 309-312, 347-358, 372-387.
timerCallback(r, t) ==
    CASE t = "silentTimeoutTimer" -> destroyRequest(r)
      [] t = "noisyRejectionSendResponseInterval" ->
           IF Writable(r) THEN [r EXCEPT !.periodic = @ + 1] ELSE r
      [] t = "noisyRejectionSendResponseTimer" ->
           [Cancel(r, "noisyRejectionSendResponseInterval") EXCEPT
               !.handle["noisyRejectionSendResponseInterval"] = NULL,
               !.last = IF Writable(r) THEN @ + 1 ELSE @, !.lastCallback = TRUE]
      [] t = "noisyTimeoutSendResponseInterval" ->
           IF Writable(r) THEN [r EXCEPT !.periodic = @ + 1] ELSE r
      [] t = "noisyTimeoutSendResponseTimer" ->
           [Cancel([r EXCEPT !.last = IF Writable(r) THEN @ + 1 ELSE @],
                   "noisyTimeoutSendResponseInterval") EXCEPT
               !.handle["noisyTimeoutSendResponseInterval"] = NULL]
      [] t = "noisyTimeoutTimer" -> destroyResponse(r)

\* the callback of the last write as if it ended the response gracefully
lastWriteCallback_endsResponse(r) == End([r EXCEPT !.lastCallback = FALSE])

\* The callback of response.write("Last chunk!\n", ...), lines 355-357.
lastWriteCallback(r) == destroyResponse([r EXCEPT !.lastCallback = FALSE])

\* ------------------------------------------------------------- actions
vars == <<serverState, serverPort, serverStartPromise, serverStopPromise, promises,
          listeners, native, lastCall, listenCalls, closeCalls,
          startOpPromise, stopOpPromise, startOpPrevious, errorSeen, stateLog,
          sess, crashed, options>>

Init ==
    /\ \E port \in ConstructedPorts :
          Constructed(port) /\ options = [serverHost |-> Undefined, serverPort |-> Num(port)]
    /\ sess = [s \in Sessions |-> FreeSession]
    /\ crashed = FALSE

\* A caller of the instance calls start() / stop().
callStart == ~crashed /\ start /\ UNCHANGED <<sess, crashed, options>>
callStop == ~crashed /\ stop /\ UNCHANGED <<sess, crashed, options>>

listeningEvent == ~crashed /\ serverEmitsListening /\ UNCHANGED <<sess, crashed, options>>
errorEvent == ~crashed /\ (\E code \in SystemErrorCodes : serverEmitsError(code))
                       /\ UNCHANGED <<sess, crashed, options>>
closeEvent == ~crashed /\ serverEmitsClose /\ UNCHANGED <<sess, crashed, options>>

\* a step of a session as if the timer handle variables were shared by the sessions
SessionStep_sharedHandles(s, r2) ==
    /\ ~crashed
    /\ sess' = [o \in DOMAIN sess |->
                  IF o = s THEN r2 ELSE [sess[o] EXCEPT !.handle = r2.handle]]
    /\ IF r2.dispatched > sess[s].dispatched /\ r2.behaviors[Len(r2.behaviors)] = "/stop"
       THEN stop /\ crashed' = (lastCall'.outcome = "threw")
       ELSE UNCHANGED lifecycleVars /\ crashed' = r2.threw
    /\ UNCHANGED options

\* a step of a session as if the "/stop" behavior never called this.stop()
SessionStep_noStop(s, r2) ==
    /\ ~crashed
    /\ sess' = [sess EXCEPT ![s] = r2]
    /\ UNCHANGED lifecycleVars /\ crashed' = r2.threw
    /\ UNCHANGED options

\* A step of session s that leaves it as r2. When the step ran the "/stop"
\* behavior, the handler called this.stop() (line 673); an exception of
\* stop() leaves the handler uncaught.
SessionStep(s, r2) ==
    /\ ~crashed
    /\ sess' = [sess EXCEPT ![s] = r2]
    /\ IF r2.dispatched > sess[s].dispatched /\ r2.behaviors[Len(r2.behaviors)] = "/stop"
       THEN stop /\ crashed' = (lastCall'.outcome = "threw")
       ELSE UNCHANGED lifecycleVars /\ crashed' = r2.threw
    /\ UNCHANGED options

\* The surroundings a handler of session r may find: only what the behavior
\* of its path reads differs from NoEnv. Nothing is read once the request
\* has closed, and a response that has closed takes no write.
EnvsOf(r, closed) ==
    LET accepts == IF closed THEN {0} ELSE 0..MaxSource
    IN IF r.reqClosed \/ ~r.registered THEN {NoEnv}
       ELSE IF r.path = "/bigrandomfile"
       THEN [method : {"GET"}, contentType : {"none"}, hwm : 1..MaxChunkSize,
             size : 1..MaxSource, accepts : accepts]
       ELSE IF r.path \in CheckPaths
       THEN [method : Methods, contentType : ContentTypes, hwm : 1..MaxChunkSize,
             size : {1}, accepts : accepts]
       ELSE {NoEnv}

\* A handler runs in surroundings e; they are gone when it returns.
WithEnv(r, e) == [r EXCEPT !.env = e]
Forget(r) == [r EXCEPT !.env = NoEnv]

\* 'request' of #serverInstance (lines 166-168): a connection is accepted and
\* its request head parsed.
accept(s, path) ==
    /\ native = "bound"
    /\ sess[s].phase = "free"
    /\ \A o \in Sessions : o < s => sess[o].phase # "free"
    /\ SessionStep(s, processRequest(path))

\* The request body is complete: 'end', then 'close' of the request.
requestEnds(s) ==
    /\ sess[s].phase = "open"
    /\ sess[s].registered
    /\ ~sess[s].reqClosed
    /\ \E e \in EnvsOf(sess[s], FALSE) :
           SessionStep(s, Forget(requestCloses(onRequestEnd(WithEnv(sess[s], e)))))

\* The request stream delivers a chunk of the body: 'data'.
dataArrives(s, chunk) ==
    /\ sess[s].phase = "open"
    /\ sess[s].registered
    /\ ~sess[s].reqEnded
    /\ ~sess[s].reqClosed
    /\ Len(sess[s].received) + Len(chunk) <= MaxBody
    /\ SessionStep(s, onRequestData([sess[s] EXCEPT !.received = @ \o chunk], chunk))

\* The transport of a response under backpressure is ready again: 'drain'.
drainEvent(s) ==
    /\ sess[s].phase = "open"
    /\ ~sess[s].resClosed
    /\ sess[s].blocked
    /\ \E n \in 0..MaxSource :
           SessionStep(s, Forget(onDrain(WithEnv(sess[s], [NoEnv EXCEPT !.accepts = n]))))

\* A pending timer or interval of the session fires.
timerFires(s, t) ==
    /\ sess[s].run[t] = "pending"
    /\ t \in Intervals => sess[s].periodic < MaxTicks
    /\ LET r == sess[s]
           f == IF t \in Intervals THEN r ELSE [r EXCEPT !.run[t] = "fired"]
       IN SessionStep(s, timerCallback(f, t))

\* defaults.js, lines 15-19: the delays in milliseconds.
REQUEST_TIMEOUT == 1000
NOISY_REJECTION_SEND_RESPONSE_INTERVAL == 10
NOISY_REJECTION_SEND_RESPONSE_TIMER == 100
NOISY_TIMEOUT_SEND_RESPONSE_INTERVAL == 10
NOISY_TIMEOUT_SEND_RESPONSE_TIMER == 100

\* The delay setTimeout / setInterval is given for handle variable t.
Delay(t) ==
    CASE t = "silentTimeoutTimer" -> REQUEST_TIMEOUT
      [] t = "noisyRejectionSendResponseInterval" -> NOISY_REJECTION_SEND_RESPONSE_INTERVAL
      [] t = "noisyRejectionSendResponseTimer" -> NOISY_REJECTION_SEND_RESPONSE_TIMER
      [] t = "noisyTimeoutSendResponseInterval" -> NOISY_TIMEOUT_SEND_RESPONSE_INTERVAL
      [] t = "noisyTimeoutSendResponseTimer" -> NOISY_TIMEOUT_SEND_RESPONSE_TIMER
      [] t = "noisyTimeoutTimer" -> REQUEST_TIMEOUT

\* Timer or interval u of the session has fired at least once.
HasFired(r, u) == IF u \in Intervals THEN r.periodic >= 1 ELSE r.run[u] = "fired"

\* A pending timer or interval fires, in the order of the delays: the timers
\* of a session are set in one handler run, so t does not fire before a
\* pending one with a shorter delay has fired.
timerFiresInOrder(s, t) ==
    /\ \A u \in Timers :
          (sess[s].run[u] = "pending" /\ Delay(u) < Delay(t)) => HasFired(sess[s], u)
    /\ timerFires(s, t)

\* The write of the last chunk completes (or fails): its callback runs.
lastWriteCompletes(s) ==
    /\ sess[s].lastCallback
    /\ SessionStep(s, lastWriteCallback(sess[s]))

\* The response is flushed after response.end(): 'finish' and 'close' of the
\* response; the connection is released.
responseFinishes(s) ==
    /\ sess[s].phase = "open"
    /\ sess[s].ended
    /\ ~sess[s].resClosed
    /\ SessionStep(s, [onResponseClose(sess[s]) EXCEPT !.phase = "closed"])

\* The response stream emits 'error'.
responseErrors(s) ==
    /\ sess[s].phase = "open"
    /\ ~sess[s].resClosed
    /\ SessionStep(s, onResponseError(sess[s]))

\* A socket destroyed by the session's code emits 'close'.
socketClosed(s) ==
    /\ sess[s].phase = "closing"
    /\ \E e \in EnvsOf(sess[s], TRUE) :
           SessionStep(s, Forget(socketCloses(WithEnv(sess[s], e))))

AnyPending(r) == \E t \in Timers : r.run[t] = "pending"

\* The client aborts: the socket closes under the session.
clientAborts(s) ==
    /\ sess[s].phase = "open"
    /\ LET r == sess[s]
           g == [r EXCEPT !.abortedTimed = r.path \in TimedPaths /\ AnyPending(r)]
       IN \E e \in EnvsOf(r, TRUE) : SessionStep(s, Forget(socketCloses(WithEnv(g, e))))

\* The server instance, its callers and the events of #serverInstance.
Next ==
    \/ callStart
    \/ callStop
    \/ listeningEvent
    \/ errorEvent
    \/ closeEvent

Spec == Init /\ [][Next]_vars

\* A server that is started and stopped without server errors, and the
\* sessions of its connections.
NextSession ==
    \/ callStart
    \/ callStop
    \/ listeningEvent
    \/ closeEvent
    \/ \E s \in Sessions, path \in Paths : accept(s, path)
    \/ \E s \in Sessions : requestEnds(s)
    \/ \E s \in Sessions, t \in Timers : timerFires(s, t)
    \/ \E s \in Sessions : lastWriteCompletes(s)
    \/ \E s \in Sessions : responseFinishes(s)
    \/ \E s \in Sessions : responseErrors(s)
    \/ \E s \in Sessions : socketClosed(s)
    \/ \E s \in Sessions : clientAborts(s)

SpecSession == Init /\ [][NextSession]_vars

\* The chunks a 'data' event delivers.
Chunks == UNION {[1..n -> Bytes] : n \in 1..MaxBody}

\* One connection to a server that only a "/stop" request stops, on any path
\* and with any body, and everything that can happen to it.
NextRequest ==
    \/ callStart
    \/ listeningEvent
    \/ closeEvent
    \/ \E path \in AllPaths : accept(1, path)
    \/ \E chunk \in Chunks : dataArrives(1, chunk)
    \/ requestEnds(1)
    \/ \E t \in Timers : timerFires(1, t)
    \/ lastWriteCompletes(1)
    \/ drainEvent(1)
    \/ responseFinishes(1)
    \/ responseErrors(1)
    \/ socketClosed(1)
    \/ clientAborts(1)

SpecRequest == Init /\ [][NextRequest]_vars

\* Connections on the timed routes that the clients keep open, their timers
\* firing in the order of the default delays.
NextTimed ==
    \/ callStart
    \/ callStop
    \/ listeningEvent
    \/ closeEvent
    \/ \E s \in Sessions, path \in TimedPaths : accept(s, path)
    \/ \E s \in Sessions : requestEnds(s)
    \/ \E s \in Sessions, t \in Timers : timerFiresInOrder(s, t)
    \/ \E s \in Sessions : lastWriteCompletes(s)
    \/ \E s \in Sessions : socketClosed(s)

SpecTimed == Init /\ [][NextTimed]_vars

\* The same, where the transport of a response under backpressure becomes
\* ready again unless the connection goes away first.
SpecRequestFair == SpecRequest /\ WF_vars(drainEvent(1))

\* Two connections open at once (sessions share no variable, so two show
\* every interleaving of one session's step with another's state): on a
\* route with timers, a route that reads a body and writes it back in
\* chunks, and "/stop". The bodies arrive byte by byte.
ConcurrentPaths == {"/noisyrejection", "/checkstring", "/stop"}
Concurrent == {1, 2}
ConcurrentChunks == {PATTERN_STRING}

InitConcurrent ==
    /\ Constructed(SERVER_PORT)
    /\ options = [serverHost |-> Undefined, serverPort |-> Num(SERVER_PORT)]
    /\ sess = [s \in Concurrent |-> FreeSession]
    /\ crashed = FALSE

NextConcurrent ==
    \/ callStart
    \/ listeningEvent
    \/ closeEvent
    \/ \E s \in Concurrent, path \in ConcurrentPaths : accept(s, path)
    \/ \E s \in Concurrent, chunk \in ConcurrentChunks : dataArrives(s, chunk)
    \/ \E s \in Concurrent : requestEnds(s)
    \/ \E s \in Concurrent, t \in Timers : timerFires(s, t)
    \/ \E s \in Concurrent : lastWriteCompletes(s)
    \/ \E s \in Concurrent : drainEvent(s)
    \/ \E s \in Concurrent : responseFinishes(s)
    \/ \E s \in Concurrent : responseErrors(s)
    \/ \E s \in Concurrent : socketClosed(s)
    \/ \E s \in Concurrent : clientAborts(s)

SpecConcurrent == InitConcurrent /\ [][NextConcurrent]_vars

\* Connections on the routes that answer at once, "/stop" among them, with
\* the callers of start() and stop().
StopPaths == {"/stop", "/silentresponse", "/"}
NextStop ==
    \/ callStart
    \/ callStop
    \/ listeningEvent
    \/ closeEvent
    \/ \E s \in Sessions, path \in StopPaths : accept(s, path)
    \/ \E s \in Sessions : requestEnds(s)
    \/ \E s \in Sessions : responseFinishes(s)
    \/ \E s \in Sessions : responseErrors(s)
    \/ \E s \in Sessions : socketClosed(s)
    \/ \E s \in Sessions : clientAborts(s)

SpecStop == Init /\ [][NextStop]_vars

\* The same, where a closing server with no connection left emits 'close'.
SpecStopFair == SpecStop /\ WF_vars(closeEvent)

\* Two connections at once on the routes that answer at once, "/stop" among
\* them, with a caller that calls start() and stop().
NextStopConcurrent ==
    \/ callStart
    \/ callStop
    \/ listeningEvent
    \/ closeEvent
    \/ \E s \in Concurrent, path \in StopPaths : accept(s, path)
    \/ \E s \in Concurrent : requestEnds(s)
    \/ \E s \in Concurrent : responseFinishes(s)
    \/ \E s \in Concurrent : responseErrors(s)
    \/ \E s \in Concurrent : socketClosed(s)
    \/ \E s \in Concurrent : clientAborts(s)

SpecStopConcurrent == InitConcurrent /\ [][NextStopConcurrent]_vars

\* One connection on a timed route that the client never closes: the request
\* is complete as it arrives, and the timers fire in any order.
NextUnattended ==
    \/ callStart
    \/ listeningEvent
    \/ \E path \in TimedPaths : accept(1, path)
    \/ requestEnds(1)
    \/ \E t \in Timers : timerFires(1, t)
    \/ lastWriteCompletes(1)
    \/ socketClosed(1)

SpecUnattended == Init /\ [][NextUnattended]_vars

\* The timers that are set fire, a write that was issued completes, a request
\* that is complete ends and a destroyed socket closes.
SpecUnattendedFair ==
    /\ SpecUnattended
    /\ \A t \in Timers : WF_vars(timerFires(1, t))
    /\ WF_vars(lastWriteCompletes(1))
    /\ WF_vars(requestEnds(1))
    /\ WF_vars(socketClosed(1))

\* Construction and the lifecycle after it: new HTTPTestServer(o) for every
\* o of Options, then start() and stop() of the instance if one was created.
InitConstruct ==
    /\ NotConstructed
    /\ sess = [s \in Sessions |-> FreeSession]
    /\ crashed = FALSE

NextConstruct ==
    \/ \E o \in Options : new(o) /\ UNCHANGED <<sess, crashed>>
    \/ serverState \in ServerStates /\ callStart
    \/ serverState \in ServerStates /\ callStop
    \/ listeningEvent
    \/ closeEvent

SpecConstruct == InitConstruct /\ [][NextConstruct]_vars

\* ======================================================== properties
\* The fields of the instance a call that begins no operation must leave alone.
InstanceUnchanged ==
    UNCHANGED <<serverState, serverPort, serverStartPromise, serverStopPromise, promises,
                listeners, native, listenCalls, closeCalls>>

\* The operations in flight: a listen (close) was issued and its promise is
\* still pending.
InFlight(kind) == {p \in 1..Len(promises) : promises[p].kind = kind /\ promises[p].status = "pending"}

\* The i-th value of the state on a run of successful start/stop cycles.
Canon(i) ==
    IF i = 1 THEN CREATED
    ELSE <<STARTING, LISTENING, STOPPING, STOPPED>>[((i - 2) % 4) + 1]

\* The session is over: its socket has closed and nothing of it is left to
\* run (no timer pending, no write callback outstanding).
TornDown(r) == r.phase = "closed" /\ ~AnyPending(r) /\ ~r.lastCallback

\* C1: in every session, for every route and teardown cause, once the
\* session is torn down every handle it recorded has been cleared exactly
\* once and its record is null again.
C1_HandlesClearedAtTeardown ==
    \A s \in Sessions :
        TornDown(sess[s]) =>
            \A t \in Timers :
                /\ sess[s].handle[t] = NULL
                /\ sess[s].run[t] # "none" => sess[s].cleared[t] = 1

\* C2: when the client aborts a session of a timed route that has a timer or
\* interval pending, every timer of the session is cancelled: from then on
\* none is pending, and the session issues no further write or destroy.
C2_AbortCancelsTimers ==
    /\ [](\A s \in Sessions :
            sess[s].abortedTimed => ~AnyPending(sess[s]) /\ ~sess[s].lastCallback)
    /\ [][\A s \in Sessions :
            sess[s].abortedTimed =>
                /\ sess'[s].periodic = sess[s].periodic
                /\ sess'[s].last = sess[s].last
                /\ sess'[s].page = sess[s].page
                /\ sess'[s].destroys = sess[s].destroys
                /\ sess'[s].run = sess[s].run]_vars

C2_Witness ==
    \E s \in Sessions :
        /\ sess[s].abortedTimed
        /\ sess[s].path = "/noisytimeout"
        /\ sess[s].periodic > 0
        /\ sess[s].cleared["noisyTimeoutTimer"] = 1

\* C3: while the server emits no error, the state takes the values CREATED,
\* STARTING, LISTENING, STOPPING, STOPPED in this order, none skipped or
\* revisited: STARTING as start() returns, LISTENING at the 'listening'
\* event, STOPPING as stop() returns, STOPPED at the 'close' event.
C3_StateSequence ==
    /\ [](~errorSeen =>
            /\ Len(stateLog) >= 1
            /\ \A i \in 1..Len(stateLog) : stateLog[i] = Canon(i)
            /\ Len(stateLog) < MaxLog => serverState = stateLog[Len(stateLog)])
    /\ [][~errorSeen' =>
            /\ (start /\ serverState = CREATED) => serverState' = STARTING
            /\ (serverEmitsListening /\ serverState = STARTING) => serverState' = LISTENING
            /\ (stop /\ serverState = LISTENING) => serverState' = STOPPING
            /\ (serverEmitsClose /\ serverState = STOPPING) => serverState' = STOPPED]_vars

C3_Witness ==
    /\ ~errorSeen
    /\ stateLog = <<CREATED, STARTING, LISTENING, STOPPING, STOPPED>>
    /\ serverState = STOPPED
    /\ promises[1].status = "fulfilled"
    /\ promises[2].status = "fulfilled"

\* C4: start() in STARTING or LISTENING returns the promise of the start()
\* that began the current start operation, and changes nothing: no state
\* change, no new promise, no second listen.
C4_StartReturnsSamePromise ==
    [][(serverState \in {STARTING, LISTENING} /\ start) =>
            /\ lastCall' = Returned("start", startOpPromise)
            /\ startOpPromise # NULL
            /\ InstanceUnchanged]_vars

C4_Witness ==
    /\ serverState = LISTENING
    /\ lastCall = Returned("start", serverStartPromise)
    /\ promises[serverStartPromise].status = "fulfilled"
    /\ listenCalls = 1

\* C5: stop() in STOPPING or STOPPED returns the promise of the stop() that
\* began the most recent stop operation, and changes nothing: no state
\* change, no new promise, no second close.
C5_StopReturnsSamePromise ==
    [][(serverState \in {STOPPING, STOPPED} /\ stop) =>
            /\ lastCall' = Returned("stop", stopOpPromise)
            /\ stopOpPromise # NULL
            /\ InstanceUnchanged]_vars

C5_Witness ==
    /\ serverState = STOPPED
    /\ lastCall = Returned("stop", serverStopPromise)
    /\ promises[serverStopPromise].status = "fulfilled"
    /\ closeCalls = 1

\* C6: at most one start operation and at most one stop operation is in
\* flight, and never a start and a stop operation at the same time.
C6_OneOperationInFlight ==
    /\ Cardinality(InFlight("start")) <= 1
    /\ Cardinality(InFlight("stop")) <= 1
    /\ InFlight("start") = {} \/ InFlight("stop") = {}

C6_Witness ==
    /\ Len(promises) >= 3
    /\ InFlight("start") = {Len(promises)}
    /\ lastCall = Returned("start", Len(promises))

\* C7: start() in STOPPING throws NOT_IN_STARTABLE_STATE, returns no promise,
\* issues no listen and changes nothing; the stop operation stays in flight
\* (close issued, promise pending, close listener registered) and completes
\* to STOPPED at the 'close' event.
C7_StartThrowsInStopping ==
    [][/\ (serverState = STOPPING /\ start) =>
            /\ lastCall' = Threw("start", ERROR_HTTP_TEST_SERVER_NOT_IN_STARTABLE_STATE)
            /\ InstanceUnchanged
            /\ native' = "closing"
            /\ promises'[serverStopPromise'].status = "pending"
            /\ \E i \in 1..Len(listeners'.close) :
                   listeners'.close[i] = CloseListener(serverStopPromise')
       /\ (serverState = STOPPING /\ serverEmitsClose) =>
            /\ serverState' = STOPPED
            /\ promises'[serverStopPromise].status = "fulfilled"]_vars

C7_Witness ==
    /\ serverState = STOPPED
    /\ lastCall = Threw("start", ERROR_HTTP_TEST_SERVER_NOT_IN_STARTABLE_STATE)
    /\ promises[serverStopPromise].status = "fulfilled"

\* C8: stop() in CREATED or STARTING throws NOT_IN_STOPPABLE_STATE, returns
\* no promise, issues no close and changes nothing, a pending start
\* operation included.
C8_StopThrowsBeforeListening ==
    [][(serverState \in {CREATED, STARTING} /\ stop) =>
            /\ lastCall' = Threw("stop", ERROR_HTTP_TEST_SERVER_NOT_IN_STOPPABLE_STATE)
            /\ InstanceUnchanged]_vars

C8_Witness ==
    /\ serverState = STARTING
    /\ lastCall = Threw("stop", ERROR_HTTP_TEST_SERVER_NOT_IN_STOPPABLE_STATE)
    /\ InFlight("start") = {serverStartPromise}

\* C9: an 'error' while the state is STARTING puts the state back to the one
\* the instance had just before that start() (CREATED, or STOPPED on a
\* restart), whatever older listeners are still registered, and a failed
\* bind rejects the start promise with the error of the OS error code.
C9_BindFailureReverts ==
    [][\A code \in SystemErrorCodes :
        (serverState = STARTING /\ serverEmitsError(code)) =>
            /\ serverState' = startOpPrevious
            /\ serverState' \in {CREATED, STOPPED}
            /\ promises'[startOpPromise].status = "rejected"
            /\ native = "binding" =>
                   promises'[startOpPromise].value = createErrorFromSystemErrorCode(code)]_vars

C9_Witness ==
    /\ serverState = STOPPED
    /\ Len(promises) = 3
    /\ startOpPromise = 3
    /\ promises[3].status = "rejected"
    /\ promises[3].value = "ERROR_ADDRESS_IN_USE"

\* C10: an 'error' while the state is STOPPING rejects the stop promise with
\* the error of the OS error code and puts the state back to LISTENING, the
\* error listener of the earlier start() being still registered or not; a
\* later stop() from LISTENING begins a new stop operation with a new promise.
C10_StopFailureReverts ==
    [][/\ \A code \in SystemErrorCodes :
            (serverState = STOPPING /\ serverEmitsError(code)) =>
                /\ serverState' = LISTENING
                /\ promises'[stopOpPromise].status = "rejected"
                /\ promises'[stopOpPromise].value = createErrorFromSystemErrorCode(code)
       /\ (serverState = LISTENING /\ stop) =>
                /\ serverState' = STOPPING
                /\ lastCall' = Began("stop", serverStopPromise')
                /\ serverStopPromise' \notin 1..Len(promises)
                /\ promises'[serverStopPromise'].status = "pending"
                /\ closeCalls' = closeCalls + 1]_vars

C10_Witness ==
    /\ serverState = STOPPING
    /\ \E p \in 1..Len(promises) :
          /\ p < serverStopPromise
          /\ promises[p].kind = "stop"
          /\ promises[p].status = "rejected"
    /\ promises[serverStopPromise].status = "pending"

\* The promises of the given kind that the step fulfils.
FulfilledNow(kind) ==
    {p \in 1..Len(promises) :
        /\ promises[p].kind = kind
        /\ promises[p].status = "pending"
        /\ promises'[p].status = "fulfilled"}

\* C11: a promise returned by start() is fulfilled only with LISTENING, and
\* the state is LISTENING at the step that fulfils it; a promise returned by
\* stop() is fulfilled only with STOPPED, and the state is STOPPED at the
\* step that fulfils it.
C11_FulfilledWithStateToken ==
    /\ [](\A p \in 1..Len(promises) :
            promises[p].status = "fulfilled" =>
                promises[p].value = (IF promises[p].kind = "start" THEN LISTENING ELSE STOPPED))
    /\ [][/\ FulfilledNow("start") # {} => serverState' = LISTENING
          /\ FulfilledNow("stop") # {} => serverState' = STOPPED]_vars

C11_Witness ==
    /\ Len(promises) = 3
    /\ promises[2] = [kind |-> "stop", status |-> "fulfilled", value |-> STOPPED]
    /\ promises[3] = [kind |-> "start", status |-> "fulfilled", value |-> LISTENING]
    /\ serverState = LISTENING

\* C12: start() from STOPPED moves the state to STARTING and begins a new
\* start operation (a listen is issued) whose promise is not one of the
\* earlier promises; the 'listening' event of its bind moves the state to
\* LISTENING; a stop() from that LISTENING state begins a new stop operation
\* (new promise, new close) and does not return the stop promise of the
\* previous cycle.
C12_RestartFromStopped ==
    [][/\ (serverState = STOPPED /\ start) =>
            /\ serverState' = STARTING
            /\ lastCall' = Began("start", serverStartPromise')
            /\ serverStartPromise' \notin 1..Len(promises)
            /\ serverStartPromise' # serverStartPromise
            /\ listenCalls' = listenCalls + 1
            /\ ~errorSeen => /\ promises'[serverStartPromise'].status = "pending"
                             /\ native' = "binding"
       /\ (serverState = STARTING /\ startOpPrevious = STOPPED /\ serverEmitsListening) =>
            /\ serverState' = LISTENING
            /\ promises'[startOpPromise].status = "fulfilled"
       /\ (serverState = LISTENING /\ startOpPrevious = STOPPED /\ stop) =>
            /\ serverState' = STOPPING
            /\ lastCall' = Began("stop", serverStopPromise')
            /\ serverStopPromise' # stopOpPromise
            /\ serverStopPromise' \notin 1..Len(promises)
            /\ promises'[serverStopPromise'].status = "pending"
            /\ closeCalls' = closeCalls + 1]_vars

C12_Witness ==
    /\ serverState = STOPPING
    /\ Len(promises) = 4
    /\ promises[1] = [kind |-> "start", status |-> "fulfilled", value |-> LISTENING]
    /\ promises[2] = [kind |-> "stop", status |-> "fulfilled", value |-> STOPPED]
    /\ promises[3] = [kind |-> "start", status |-> "fulfilled", value |-> LISTENING]
    /\ lastCall = Began("stop", 4)
    /\ closeCalls = 2

\* C13: the state changes only by a start() call, a stop() call, or the
\* bind/close completion (success or failure) of the operation in flight; in
\* LISTENING or STOPPED with no operation in flight, a server 'error' leaves
\* the state unchanged.
C13_StateChangesOnlyByOperation ==
    [][/\ serverState' # serverState =>
            \/ start
            \/ stop
            \/ InFlight("start") # {} /\ serverEmitsListening
            \/ InFlight("stop") # {} /\ serverEmitsClose
            \/ /\ InFlight("start") # {} \/ InFlight("stop") # {}
               /\ \E code \in SystemErrorCodes : serverEmitsError(code)
       /\ \A code \in SystemErrorCodes :
            (/\ serverState \in {LISTENING, STOPPED}
             /\ InFlight("start") = {}
             /\ InFlight("stop") = {}
             /\ serverEmitsError(code)) => serverState' = serverState]_vars

\* What the session keeps about its timers.
TimerFields(r) == [handle |-> r.handle, run |-> r.run, cleared |-> r.cleared]

\* C14: cancel-all is idempotent: in every state of a session, invoking it
\* twice leaves what invoking it once leaves; invoking it from an error
\* handler and again from the close handler leaves the timers as one
\* invocation does; and no handle is ever cleared more than once.
C14_CancelAllIdempotent ==
    \A s \in Sessions :
        LET r == sess[s]
            once == clearTimersAndIntervals(r)
        IN /\ clearTimersAndIntervals(once) = once
           /\ TimerFields(onResponseClose(onResponseError(r))) = TimerFields(once)
           /\ TimerFields(onResponseClose(onRequestError(r))) = TimerFields(once)
           /\ \A t \in Timers : r.cleared[t] <= 1

\* A noisy session whose response failed before its timer fired: cancel-all
\* ran in the response error handler and again in the response close handler.
C14_Witness ==
    \E s \in Sessions :
        /\ sess[s].path = "/noisyrejection"
        /\ sess[s].phase = "closed"
        /\ sess[s].resClosed
        /\ sess[s].dispatched = 1
        /\ sess[s].last = 0
        /\ sess[s].destroys = 1
        /\ sess[s].run["noisyRejectionSendResponseTimer"] = "cancelled"
        /\ sess[s].cleared["noisyRejectionSendResponseTimer"] = 1
        /\ sess[s].handle["noisyRejectionSendResponseTimer"] = NULL

\* C15: in the chunked response writers, once a write has returned false no
\* further write and no end is issued on that response until its 'drain'
\* has been received, and at most one drain listener is registered at a time.
C15_NoWriteUnderBackpressure ==
    /\ [](\A s \in Sessions :
            /\ \A i \in 1..Len(sess[s].wrote) : ~sess[s].wrote[i].blocked
            /\ ~sess[s].endedBlocked
            /\ sess[s].drainListeners <= 1
            /\ sess[s].blocked => sess[s].drainListeners = 1)
    /\ [][\A s \in Sessions :
            (sess[s].blocked /\ ~drainEvent(s)) =>
                /\ sess'[s].wrote = sess[s].wrote
                /\ sess'[s].ends = sess[s].ends]_vars

\* A writer that was stopped by backpressure twice, resumed twice and ended.
C15_Witness ==
    \E s \in Sessions :
        /\ sess[s].path = "/checkpattern"
        /\ Len(sess[s].wrote) = 3
        /\ ~sess[s].wrote[1].result
        /\ sess[s].wrote[2].result
        /\ ~sess[s].wrote[3].result
        /\ sess[s].ends = 1
        /\ ~sess[s].blocked

\* The number of body bytes the writer of the session has written.
BytesWritten(r) ==
    IF r.wrote = <<>> THEN 0 ELSE r.wrote[Len(r.wrote)].at + r.wrote[Len(r.wrote)].size

\* C16: the chunks a chunked response writer writes are, in write order,
\* consecutive slices of the source from offset 0: each begins where the
\* previous one ended (whatever that write returned), each has between 1 and
\* max-chunk-size bytes, the echoed bytes are the source's bytes up to the
\* offset reached, and when the writer has ended the response the bytes
\* written are exactly the source.
C16_ChunksAreConsecutiveSlices ==
    \A s \in Sessions :
        LET r == sess[s]
        IN (r.path \in WriterPaths /\ r.head = 200) =>
            /\ \A i \in 1..Len(r.wrote) :
                   /\ r.wrote[i].at = IF i = 1 THEN 0
                                      ELSE r.wrote[i - 1].at + r.wrote[i - 1].size
                   /\ r.wrote[i].size >= 1
                   /\ r.wrote[i].size <= r.maxChunkSize
            /\ BytesWritten(r) <= r.size
            /\ r.path \in CheckPaths =>
                   r.sent = SubSeq(ResponseSource(r), 1, BytesWritten(r))
            /\ r.ends > 0 => BytesWritten(r) = r.size

\* An echo of three bytes written in two chunks, the first of which reported
\* backpressure, and ended.
C16_Witness ==
    \E s \in Sessions :
        /\ sess[s].path = "/checkpattern"
        /\ sess[s].maxChunkSize = 2
        /\ Len(sess[s].wrote) = 2
        /\ ~sess[s].wrote[1].result
        /\ sess[s].wrote[2].at = 2
        /\ sess[s].wrote[2].size = 1
        /\ sess[s].sent = <<1, 1, 1>>
        /\ sess[s].ends = 1

\* The writer of the session has begun and its response has not failed.
Writing(r) ==
    /\ r.path \in WriterPaths
    /\ r.head = 200
    /\ r.phase = "open"
    /\ ~r.resClosed

\* C17: a chunked response writer calls response.end() at most once, only
\* after every chunk was written and never while the last write's
\* backpressure is unreleased; and when every backpressured write is followed
\* by a 'drain' and the stream does not fail, the writer ends the response.
C17_WriterEndsOnce ==
    /\ [](\A s \in Sessions :
            LET r == sess[s]
            IN /\ r.ends <= 1
               /\ (r.path \in WriterPaths /\ r.head = 200 /\ r.ends > 0) =>
                      /\ BytesWritten(r) = r.size
                      /\ ~r.endedBlocked
                      /\ r.drainListeners = 0)
    /\ \A s \in Sessions :
          Writing(sess[s]) ~> (sess[s].ends = 1 \/ ~Writing(sess[s]))

\* A random file whose last write reported backpressure, ended after the
\* drain.
C17_Witness ==
    \E s \in Sessions :
        /\ sess[s].path = "/bigrandomfile"
        /\ sess[s].size = 3
        /\ sess[s].maxChunkSize = 2
        /\ Len(sess[s].wrote) = 2
        /\ ~sess[s].wrote[2].result
        /\ sess[s].ends = 1
        /\ sess[s].phase = "open"

\* The eleven behaviors: one per named path, and the default one.
Behaviors == NamedPaths \cup {"default"}

SilentPaths == {"/silentrejection", "/silenttimeout"}

\* C19: in a session of a non-silent route, when the behavior has been
\* executed the request stream had signalled its end and the body buffer
\* holds every byte received, in order (null when none was): no behavior is
\* executed on a request that closed before its end.
C19_DispatchOnCompleteBody ==
    \A s \in Sessions :
        LET r == sess[s]
        IN (r.path \notin SilentPaths /\ r.behaviors # <<>>) =>
              /\ r.reqEnded
              /\ r.requestBodyBuffer.bytes = r.received
              /\ r.requestBodyBuffer.null = (r.received = <<>>)

\* C20: a session of /silentrejection destroys the request in the step that
\* accepts it, without waiting for the body, and never writes a response
\* head or a response body byte, ends the response or schedules a timer.
C20_SilentRejection ==
    /\ [](\A s \in Sessions :
            LET r == sess[s]
            IN r.path = "/silentrejection" =>
                 /\ r.behaviors = <<"/silentrejection">>
                 /\ r.phase \in {"closing", "closed"}
                 /\ r.reqDestroyed
                 /\ r.destroys = 1
                 /\ ~r.reqEnded
                 /\ r.received = <<>>
                 /\ r.head = 0
                 /\ r.periodic = 0 /\ r.last = 0 /\ r.page = 0
                 /\ r.wrote = <<>>
                 /\ r.ends = 0
                 /\ \A t \in Timers : r.run[t] = "none" /\ r.handle[t] = NULL)
    /\ [][\A s \in Sessions :
            accept(s, "/silentrejection") =>
                sess'[s].reqDestroyed /\ sess'[s].phase = "closing"]_vars

C20_Witness ==
    \E s \in Sessions :
        /\ sess[s].path = "/silentrejection"
        /\ sess[s].phase = "closed"
        /\ sess[s].resClosed
        /\ sess[s].reqClosed
        /\ sess[s].destroys = 1
        /\ sess[s].head = 0

\* C21: a session of /silenttimeout schedules its one single-shot timer in
\* the step that accepts it, without waiting for the body; it never writes a
\* response head or body byte; while the connection is open the request is
\* not destroyed, and the step in which the timer fires destroys it.
C21_SilentTimeout ==
    /\ [](\A s \in Sessions :
            LET r == sess[s]
            IN r.path = "/silenttimeout" =>
                 /\ r.behaviors = <<"/silenttimeout">>
                 /\ r.dispatched = 0
                 /\ ~r.reqEnded
                 /\ r.received = <<>>
                 /\ r.run["silentTimeoutTimer"] # "none"
                 /\ \A t \in Timers \ {"silentTimeoutTimer"} : r.run[t] = "none"
                 /\ r.head = 0
                 /\ r.periodic = 0 /\ r.last = 0 /\ r.page = 0
                 /\ r.wrote = <<>>
                 /\ r.ends = 0
                 /\ r.phase = "open" =>
                        /\ r.run["silentTimeoutTimer"] = "pending"
                        /\ ~r.reqDestroyed
                        /\ r.destroys = 0)
    /\ [][\A s \in Sessions :
            /\ accept(s, "/silenttimeout") =>
                  sess'[s].run["silentTimeoutTimer"] = "pending" /\ sess'[s].phase = "open"
            /\ (sess[s].path = "/silenttimeout" /\ timerFires(s, "silentTimeoutTimer")) =>
                  /\ sess[s].phase = "open"
                  /\ sess'[s].reqDestroyed
                  /\ sess'[s].destroys = 1
                  /\ sess'[s].phase = "closing"
            /\ sess[s].run["silentTimeoutTimer"] \in {"fired", "cancelled"} =>
                  sess'[s].run["silentTimeoutTimer"] = sess[s].run["silentTimeoutTimer"]]_vars

C21_Witness ==
    \E s \in Sessions :
        /\ sess[s].path = "/silenttimeout"
        /\ sess[s].run["silentTimeoutTimer"] = "fired"
        /\ sess[s].phase = "closed"
        /\ sess[s].destroys = 1
        /\ sess[s].head = 0

\* C22: in a /noisyrejection session the client does not abort, with the
\* default delays: "Last chunk!" is written at most once and only after a
\* periodic line; the response is destroyed only after the last chunk was
\* written; response.end() is never called; and the session over, it has
\* written at least one periodic line and exactly one last chunk and
\* destroyed the response.
C22_NoisyRejection ==
    /\ [](\A s \in Sessions :
            LET r == sess[s]
            IN r.path = "/noisyrejection" =>
                 /\ r.ends = 0
                 /\ r.last <= 1
                 /\ r.last = 1 => r.periodic >= 1
                 /\ r.destroys > 0 => r.last = 1
                 /\ r.phase = "closed" =>
                        /\ r.periodic >= 1
                        /\ r.last = 1
                        /\ r.destroys = 1)
    /\ [][\A s \in Sessions :
            (sess[s].path = "/noisyrejection" /\ sess'[s].destroys > sess[s].destroys) =>
                lastWriteCompletes(s)]_vars

C22_Witness ==
    \E s \in Sessions :
        /\ sess[s].path = "/noisyrejection"
        /\ sess[s].phase = "closed"
        /\ sess[s].periodic = MaxTicks
        /\ sess[s].last = 1
        /\ sess[s].destroys = 1

\* C23: in a /noisytimeout session, in whatever order the interval-stop timer
\* and the abort timer fire: response.end() is never called; "Last chunk!" is
\* written at most once; the abort timer having fired, the response has been
\* destroyed and the connection is no longer open; the step in which the
\* abort timer fires on an open connection destroys the response; and no
\* line is written once the abort timer has fired.
C23_NoisyTimeoutRace ==
    /\ [](\A s \in Sessions :
            LET r == sess[s]
            IN r.path = "/noisytimeout" =>
                 /\ r.ends = 0
                 /\ r.last <= 1
                 /\ r.run["noisyTimeoutTimer"] = "fired" =>
                        (r.destroys >= 1 /\ r.phase # "open"))
    /\ [][\A s \in Sessions :
            sess[s].path = "/noisytimeout" =>
              /\ (timerFires(s, "noisyTimeoutTimer") /\ sess[s].phase = "open") =>
                    /\ sess'[s].destroys = sess[s].destroys + 1
                    /\ sess'[s].phase = "closing"
              /\ sess[s].run["noisyTimeoutTimer"] = "fired" =>
                    /\ sess'[s].periodic = sess[s].periodic
                    /\ sess'[s].last = sess[s].last]_vars

\* The abort timer fired first; the interval-stop timer then fires on the
\* destroyed response, before the socket has closed, and writes nothing.
C23_Witness ==
    \E s \in Sessions :
        /\ sess[s].path = "/noisytimeout"
        /\ sess[s].phase = "closing"
        /\ sess[s].run["noisyTimeoutTimer"] = "fired"
        /\ sess[s].run["noisyTimeoutSendResponseTimer"] = "fired"
        /\ sess[s].last = 0

\* The other order: the interval-stop timer fired first and wrote the last
\* chunk, then the abort timer destroyed the response.
C23_StopFirst ==
    \E s \in Sessions :
        /\ sess[s].path = "/noisytimeout"
        /\ sess[s].run["noisyTimeoutTimer"] = "fired"
        /\ sess[s].run["noisyTimeoutSendResponseTimer"] = "fired"
        /\ sess[s].last = 1

\* The fixture and the Content-Type the echo routes compare the request with.
EchoPaths == {"/checkpattern", "/checkstring"}
FixtureOf(path) ==
    IF path = "/checkpattern" THEN BufferAlloc(PATTERN_SIZE, PATTERN_STRING)
    ELSE StringRepeat(PATTERN_STRING, PATTERN_STRING_REPEAT)
FixtureTypeOf(path) ==
    IF path = "/checkpattern" THEN "application/octet-stream" ELSE "text/plain"

\* The request of session r is a POST of the fixture with its Content-Type.
ValidEcho(r) ==
    /\ toUpperCase(r.method) = "POST"
    /\ r.contentType = FixtureTypeOf(r.path)
    /\ r.received = FixtureOf(r.path)

\* s is a prefix of t.
IsPrefix(s, t) == Len(s) <= Len(t) /\ s = SubSeq(t, 1, Len(s))

\* C24: a request to /checkpattern or /checkstring whose behavior has run is
\* answered with 200 and an echo of the bytes received if and only if it is
\* a POST of the fixture with the route's Content-Type (the echo complete
\* when the response is ended); every other request is answered with 400,
\* the response ended with no body byte written.
C24_CheckEcho ==
    \A s \in Sessions :
        LET r == sess[s]
        IN (r.path \in EchoPaths /\ r.dispatched > 0) =>
              IF ValidEcho(r)
              THEN /\ r.head = 200
                   /\ r.resContentType = FixtureTypeOf(r.path)
                   /\ IsPrefix(r.sent, r.received)
                   /\ r.ends > 0 => r.sent = r.received
              ELSE /\ r.head = 400
                   /\ r.ends = 1
                   /\ r.wrote = <<>>
                   /\ r.sent = <<>>

\* The body the /checkjson behavior of session r validates, and the first of
\* the four conditions it fails ("none" when it passes them all).
BodyValidated(r) == IF r.reqEnded THEN r.received ELSE <<>>
FirstFailure(r) ==
    IF toUpperCase(r.method) # "POST" THEN "method"
    ELSE IF r.contentType # "application/json" THEN "header"
    ELSE IF JsonParse(BodyValidated(r)) = "error" THEN "parse"
    ELSE IF JsonParse(BodyValidated(r)) # "fixture" THEN "equality"
    ELSE "none"
MessageOf(failure) ==
    CASE failure = "method" -> "The HTTP request method is not POST."
      [] failure = "header" ->
           "The HTTP request \"Content-Type\" header is not \"application/json\"."
      [] failure = "parse" -> "The HTTP request body is not parseable as JSON."
      [] failure = "equality" ->
           "The HTTP request body JSON object does not match the pattern JSON object."

\* C25: a request to /checkjson whose behavior has run got, when it fails a
\* condition, the 400 text/plain message of the first condition it fails in
\* the order method, Content-Type, parse, equality, the response ended with
\* no body chunk written (and the header not even read when the method
\* fails); when it fails none, 200 application/json and bytes of the
\* serialized fixture only.
C25_CheckJsonOrder ==
    \A s \in Sessions :
        LET r == sess[s]
        IN (r.path = "/checkjson" /\ r.dispatched > 0) =>
              /\ ~r.threw
              /\ IF FirstFailure(r) = "none"
                 THEN /\ r.head = 200
                      /\ r.resContentType = "application/json"
                      /\ r.message = FreeSession.message
                      /\ IsPrefix(r.sent, JSON_TEXT)
                 ELSE /\ r.head = 400
                      /\ r.resContentType = "text/plain; charset=UTF-8"
                      /\ r.message = MessageOf(FirstFailure(r))
                      /\ r.ends = 1
                      /\ r.wrote = <<>>
                      /\ r.sent = <<>>
                      /\ FirstFailure(r) = "method" => r.contentType = "unread"

\* A POST that fails the header, the parse and the equality conditions got
\* the message of the header.
C25_Witness ==
    \E s \in Sessions :
        /\ sess[s].path = "/checkjson"
        /\ sess[s].dispatched > 0
        /\ sess[s].reqEnded
        /\ sess[s].method = "POST"
        /\ sess[s].contentType = "text/plain"
        /\ JsonParse(BodyValidated(sess[s])) = "error"
        /\ sess[s].received # <<>>
        /\ sess[s].message = MessageOf("header")

\* The request of session r, on a check route, fails the route's validation.
FailsValidation(r) ==
    IF r.path \in EchoPaths THEN ~ValidEcho(r) ELSE FirstFailure(r) # "none"

\* C26: on the three check routes, whatever the method, the Content-Type and
\* the body (empty or absent included), the behavior raises no exception out
\* of the request handler, and a request that fails validation has been
\* answered with 400 and its response ended.
C26_ValidationFailureIs400 ==
    \A s \in Sessions :
        LET r == sess[s]
        IN (r.path \in CheckPaths /\ r.dispatched > 0) =>
              /\ ~r.threw
              /\ ~crashed
              /\ FailsValidation(r) => (r.head = 400 /\ r.ends = 1)

\* Session s runs the behavior of its path in this step.
Dispatches(s) == sess'[s].dispatched > sess[s].dispatched

\* C27: the step that runs the /stop behavior writes the 200 text/html
\* notice and ends the response, whatever stop() then does; when the server
\* is LISTENING it calls stop(), which returns the stop promise, closes the
\* server and leaves the state STOPPING; and once every session has
\* terminated the close completes and the state becomes STOPPED, eventually.
C27_StopRoute ==
    /\ [][\A s \in Sessions :
            (sess[s].path = "/stop" /\ Dispatches(s)) =>
               /\ sess'[s].head = 200
               /\ sess'[s].resContentType = "text/html; charset=UTF-8"
               /\ sess'[s].page = 1
               /\ sess'[s].ends = 1
               /\ serverState = LISTENING =>
                     /\ serverState' = STOPPING
                     /\ closeCalls' = closeCalls + 1
                     /\ lastCall'.op = "stop"
                     /\ lastCall'.outcome = "returned"
                     /\ lastCall'.promise = serverStopPromise'
                     /\ ~crashed']_vars
    /\ \A s \in Sessions :
          (/\ sess[s].path = "/stop" /\ sess[s].dispatched > 0
           /\ serverState = STOPPING
           /\ \A o \in Sessions : sess[o].phase \in {"free", "closed"})
              ~> (serverState = STOPPED)

C27_Witness ==
    \E s \in Sessions :
        /\ sess[s].path = "/stop"
        /\ sess[s].dispatched = 1
        /\ sess[s].reqEnded
        /\ sess[s].head = 200
        /\ sess[s].phase = "closed"
        /\ serverState = STOPPED
        /\ promises[serverStopPromise].status = "fulfilled"

\* C28: the step in which the response stream of a session emits an error
\* cancels every timer of the session and destroys the response; the step
\* in which its request stream emits an error (the client aborts a request
\* that has not closed) cancels every timer that was pending and destroys
\* the request; in neither step does a timer callback of the session write.
C28_ErrorCancelsThenDestroys ==
    [][\A s \in Sessions :
         /\ responseErrors(s) =>
               /\ \A t \in Timers : sess'[s].run[t] # "pending" /\ sess'[s].handle[t] = NULL
               /\ \A t \in Timers : sess[s].run[t] = "pending" => sess'[s].run[t] = "cancelled"
               /\ sess'[s].destroys = sess[s].destroys + 1
               /\ sess'[s].phase = "closing"
               /\ sess'[s].periodic = sess[s].periodic
               /\ sess'[s].last = sess[s].last
         /\ (clientAborts(s) /\ ~sess[s].reqClosed /\ ~sess[s].reqDestroyed) =>
               /\ \A t \in Timers : sess[s].run[t] = "pending" => sess'[s].run[t] = "cancelled"
               /\ sess'[s].reqDestroyed
               /\ sess'[s].destroys = sess[s].destroys + 1
               /\ sess'[s].periodic = sess[s].periodic
               /\ sess'[s].last = sess[s].last]_vars

\* The response of a noisy session failed while its timers were pending.
C28_Witness ==
    \E s \in Sessions :
        /\ sess[s].path = "/noisyrejection"
        /\ sess[s].phase = "closing"
        /\ sess[s].last = 0
        /\ sess[s].destroys = 1
        /\ sess[s].run["noisyRejectionSendResponseTimer"] = "cancelled"
        /\ sess[s].run["noisyRejectionSendResponseInterval"] = "cancelled"

\* C29: once an error handler of a session has run, the session's stream is
\* destroyed and its connection no longer open, no timer of the session is
\* pending (none is left running and none is scheduled afterwards), and the
\* step in which the error is handled leaves the server's lifecycle state
\* and its start and stop promises unchanged.
C29_ErrorHandledLocally ==
    /\ [](\A s \in Sessions :
            sess[s].errored =>
               /\ sess[s].destroys >= 1
               /\ sess[s].phase \in {"closing", "closed"}
               /\ ~AnyPending(sess[s]))
    /\ [][\A s \in Sessions :
            (sess'[s].errored /\ ~sess[s].errored) =>
               /\ serverState' = serverState
               /\ serverStartPromise' = serverStartPromise
               /\ serverStopPromise' = serverStopPromise
               /\ promises' = promises]_vars

\* The fields of the server instance.
InstanceFields ==
    <<serverState, serverPort, serverStartPromise, serverStopPromise, promises,
      listeners, native>>

\* C30: with several sessions open and their events interleaved in any
\* order, a step changes the variables of at most one session (body
\* buffers, timer handles and write offsets among them); and a step of a
\* session changes the server instance only when it runs the "/stop"
\* behavior.
C30_SessionsIndependent ==
    [][/\ \A s \in DOMAIN sess : \A o \in DOMAIN sess \ {s} :
             sess'[s] # sess[s] => sess'[o] = sess[o]
       /\ \A s \in DOMAIN sess :
             (sess'[s] # sess[s] /\ InstanceFields' # InstanceFields) =>
                 (sess[s].path = "/stop" /\ Dispatches(s))]_vars

\* Two sessions in mid-flight: one with its timers pending after a periodic
\* line, the other with a body received and an echo partly written.
C30_Witness ==
    /\ DOMAIN sess = {1, 2}
    /\ sess[1].phase = "open"
    /\ sess[2].phase = "open"
    /\ \E s \in DOMAIN sess, o \in DOMAIN sess :
          /\ sess[s].path = "/noisyrejection"
          /\ sess[s].periodic >= 1
          /\ sess[s].run["noisyRejectionSendResponseTimer"] = "pending"
          /\ sess[o].path = "/checkstring"
          /\ sess[o].received # <<>>
          /\ sess[o].blocked
          /\ sess[o].pointer > 0

\* C31: once the request stream has signalled its end, the body buffer holds
\* the bytes of the chunks in arrival order, the recorded size is the sum of
\* the chunk lengths, the buffer is null exactly when no byte arrived, and
\* from then on neither the buffer nor the size changes.
C31_BodyIsConcatenation ==
    /\ [](\A s \in DOMAIN sess :
            LET r == sess[s]
            IN r.reqEnded =>
                 /\ r.requestBodyBuffer.bytes = r.received
                 /\ r.requestBodyBufferSize = Len(r.received)
                 /\ r.requestBodyBuffer.null = (r.received = <<>>))
    /\ [][\A s \in DOMAIN sess :
            sess[s].reqEnded =>
                 /\ sess'[s].requestBodyBuffer = sess[s].requestBodyBuffer
                 /\ sess'[s].requestBodyBufferSize = sess[s].requestBodyBufferSize
                 /\ sess'[s].received = sess[s].received]_vars

\* A body of three bytes, not all the same, has been put together.
C31_Witness ==
    \E s \in DOMAIN sess :
        /\ sess[s].reqEnded
        /\ sess[s].requestBodyBuffer.bytes = <<1, 2, 2>>
        /\ sess[s].requestBodyBufferSize = 3

\* The number of bytes in the chunks of a write log.
RECURSIVE SumOfSizes(_)
SumOfSizes(log) == IF log = <<>> THEN 0 ELSE Head(log).size + SumOfSizes(Tail(log))

\* C32: in a /bigrandomfile session the announced Content-Length is the
\* configured size; the bytes handed to response.write never exceed it,
\* every chunk has between 1 and max-chunk-size bytes, and when the writer
\* has ended the response the bytes written equal the Content-Length, for
\* every max chunk size and every pattern of backpressure.
C32_BigFileLength ==
    \A s \in DOMAIN sess :
        LET r == sess[s]
        IN (r.path = "/bigrandomfile" /\ r.dispatched > 0) =>
              /\ r.head = 200
              /\ r.contentLength = r.size
              /\ SumOfSizes(r.wrote) <= r.contentLength
              /\ \A i \in 1..Len(r.wrote) :
                    r.wrote[i].size >= 1 /\ r.wrote[i].size <= r.maxChunkSize
              /\ r.ends > 0 => SumOfSizes(r.wrote) = r.contentLength

\* The writer completed a file whose size the max chunk size does not
\* divide, after a write that met backpressure.
C32_Witness ==
    \E s \in DOMAIN sess :
        /\ sess[s].path = "/bigrandomfile"
        /\ sess[s].ends = 1
        /\ sess[s].contentLength = MaxSource
        /\ sess[s].maxChunkSize = MaxChunkSize
        /\ Len(sess[s].wrote) = 2
        /\ sess[s].wrote[1].result = FALSE

\* C33: a /silentresponse session writes nothing before its request has
\* closed; its behavior run, whatever the method and the body, the response
\* has status 204, no Content-Type, no body byte and exactly one end(), and
\* no timer was ever scheduled in the session.
C33_SilentResponse ==
    \A s \in DOMAIN sess :
        LET r == sess[s]
        IN r.path = "/silentresponse" =>
              /\ r.page = 0 /\ r.periodic = 0 /\ r.last = 0
              /\ r.wrote = <<>> /\ r.sent = <<>>
              /\ r.resContentType = "none"
              /\ \A t \in Timers : r.run[t] = "none" /\ r.handle[t] = NULL
              /\ r.dispatched = 0 => (r.head = 0 /\ r.ends = 0)
              /\ r.dispatched > 0 => (r.head = 204 /\ r.ends = 1 /\ r.ended)

\* A /silentresponse request with a body was answered and its response flushed.
C33_Witness ==
    \E s \in DOMAIN sess :
        /\ sess[s].path = "/silentresponse"
        /\ sess[s].reqEnded
        /\ sess[s].received # <<>>
        /\ sess[s].head = 204
        /\ sess[s].phase = "closed"
        /\ sess[s].destroys = 0

\* The ports the OS can bind.
PortRange == 1..65535

\* C34: the port property changes only at a 'listening' event, and only
\* from the constructed 0 to the port the OS assigned, a port between 1 and
\* 65535; a port constructed between 1 and 65535 is never replaced by
\* another; until a start has completed the property reads as constructed;
\* and a server that is LISTENING reports a port between 1 and 65535.
C34_BoundPortRecorded ==
    /\ [](/\ serverState = LISTENING => serverPort \in PortRange
          /\ (\A p \in 1..Len(promises) :
                 ~(promises[p].kind = "start" /\ promises[p].status = "fulfilled"))
               => serverPort \in ConstructedPorts)
    /\ [][/\ serverPort \in PortRange => serverPort' = serverPort
          /\ serverPort' # serverPort =>
                /\ serverPort = 0
                /\ serverPort' \in PortRange
                /\ native = "binding" /\ native' = "bound"
                /\ serverState' = LISTENING
                /\ FulfilledNow("start") # {}]_vars

\* An instance constructed with port 0 is listening on the assigned port.
C34_Witness ==
    /\ serverState = LISTENING
    /\ serverPort = EphemeralPort
    /\ promises[serverStartPromise].status = "fulfilled"

\* --------------------------------------------------------------------- C35
\* The four checks of the constructor in their order, each with its error and
\* whether the options fail it.
ChecksInOrder(o) ==
    LET host == OptionOr(o.serverHost, Str(SERVER_HOST))
        port == OptionOr(o.serverPort, Num(SERVER_PORT))
    IN << [error |-> ERROR_HTTP_TEST_SERVER_HOST_TYPE_INVALID,
           fails |-> host.type # "string"],
          [error |-> ERROR_HTTP_TEST_SERVER_HOST_INVALID,
           fails |-> ~(IPV4_ADDRESS(host.chars) \/ HOST_NAME(host.chars) \/ FQDN(host.chars))],
          [error |-> ERROR_HTTP_TEST_SERVER_PORT_TYPE_INVALID,
           fails |-> ~(port.type = "number" /\ port.integer)],
          [error |-> ERROR_HTTP_TEST_SERVER_PORT_OUT_OF_BOUNDS,
           fails |-> port.type = "number" /\ (port.number < 0 \/ port.number > 65535)] >>

\* The error of the first check the options fail, "none" if they pass all.
FirstFailedCheck(o) ==
    LET failed == {i \in 1..4 : ChecksInOrder(o)[i].fails}
    IN IF failed = {} THEN "none"
       ELSE ChecksInOrder(o)[CHOOSE i \in failed : \A k \in failed : i <= k].error

\* The strings of HostValues that are an IPv4 address, a host name or a fully
\* qualified domain name.
ValidHostStrings ==
    {<<"1", "2", "7", ".", "0", ".", "0", ".", "1">>,
     <<"l", "o", "c", "a", "l", "h", "o", "s", "t">>,
     <<"w", "w", "w", ".", "e", "x", "a", "m", "p", "l", "e", ".", "c", "o", "m">>,
     <<"m", "y", "-", "h", "o", "s", "t">>}

\* C35: the constructor checks host type, host format, port type and port
\* range in this order and throws the error of the first check that fails;
\* after such a throw no underlying server and no instance state exist; for
\* valid options the instance is in state CREATED with an idle server, no
\* listen() call issued and no promise; a string host passes the format check
\* exactly if it is an IPv4 address, a host name or an FQDN.
C35_ConstructorValidation ==
    /\ [](lastCall.op = "constructor" /\ lastCall.outcome = "threw" =>
            /\ lastCall.error = FirstFailedCheck(options)
            /\ lastCall.error # "none"
            /\ serverState = "none"
            /\ native = "none"
            /\ serverPort = NULL
            /\ promises = <<>>
            /\ listenCalls = 0)
    /\ [][lastCall.op = "none" /\ lastCall'.op = "constructor" =>
            /\ options' \in Options
            /\ (options'.serverHost.type = "string" =>
                  (ChecksInOrder(options')[2].fails <=>
                     options'.serverHost.chars \notin ValidHostStrings))
            /\ IF FirstFailedCheck(options') = "none"
               THEN /\ lastCall'.outcome = "returned"
                    /\ serverState' = CREATED
                    /\ native' = "idle"
                    /\ listenCalls' = 0
                    /\ promises' = <<>>
                    /\ serverPort' \in 0..65535
               ELSE /\ lastCall' = Threw("constructor", FirstFailedCheck(options'))
                    /\ UNCHANGED <<serverState, serverPort, serverStartPromise, serverStopPromise,
                                 promises, listeners, native, listenCalls, closeCalls>>]_vars

\* A construction failing two checks, host format and port range, threw the
\* error of the earlier one.
C35_Witness ==
    /\ lastCall = Threw("constructor", ERROR_HTTP_TEST_SERVER_HOST_INVALID)
    /\ options.serverHost = Str(<<"h", "o", "s", "t", "n", "a", "m", "e", "!">>)
    /\ options.serverPort = Num(65536)
    /\ serverState = "none"
    /\ native = "none"

\* --------------------------------------------------------------------- C36
\* The stored promise p exists and has the given status.
StoredIs(p, status) == p # NULL /\ promises[p].status = status

\* C36: in every reachable state, STARTING has a pending stored start promise,
\* LISTENING a fulfilled one, STOPPING a pending stored stop promise, STOPPED
\* a fulfilled one; a start() or stop() that returns never returns null.
C36_StateMatchesPromise ==
    /\ (serverState = STARTING => StoredIs(serverStartPromise, "pending"))
    /\ (serverState = LISTENING => StoredIs(serverStartPromise, "fulfilled"))
    /\ (serverState = STOPPING => StoredIs(serverStopPromise, "pending"))
    /\ (serverState = STOPPED => StoredIs(serverStopPromise, "fulfilled"))
    /\ (lastCall.op \in {"start", "stop"} /\ lastCall.outcome = "returned" =>
          lastCall.promise # NULL)

\* --------------------------------------------------------------------- C37
\* C37: in a /noisyrejection session, the step in which the duration timer
\* fires stops the interval, writes the last chunk and destroys nothing; the
\* timer having fired, no periodic line is written any more; and while no
\* stream error handler has run, a destroy is made only by the callback of
\* the last write, after the duration timer fired.
C37_LastChunkThenDestroy ==
    /\ [](\A s \in DOMAIN sess :
            LET r == sess[s]
            IN (r.path = "/noisyrejection" /\ r.run["noisyRejectionSendResponseTimer"] = "fired") =>
                 /\ r.run["noisyRejectionSendResponseInterval"] # "pending"
                 /\ r.handle["noisyRejectionSendResponseInterval"] = NULL)
    /\ [][\A s \in DOMAIN sess :
            LET r == sess[s]
                q == sess'[s]
            IN r.path = "/noisyrejection" /\ q.path = "/noisyrejection" =>
                 /\ (r.run["noisyRejectionSendResponseTimer"] = "pending"
                       /\ q.run["noisyRejectionSendResponseTimer"] = "fired") =>
                        /\ q.lastCallback
                        /\ q.last = IF Writable(r) THEN r.last + 1 ELSE r.last
                        /\ q.periodic = r.periodic
                        /\ q.destroys = r.destroys
                        /\ q.phase = r.phase
                 /\ r.run["noisyRejectionSendResponseTimer"] = "fired" =>
                        q.periodic = r.periodic
                 /\ (q.destroys > r.destroys /\ ~q.errored) =>
                        /\ r.run["noisyRejectionSendResponseTimer"] = "fired"
                        /\ r.lastCallback
                        /\ ~q.lastCallback
                        /\ q.last = r.last]_vars

\* A /noisyrejection session without a stream error is over: periodic lines,
\* then the last chunk, then the one destroy.
C37_Witness ==
    \E s \in DOMAIN sess :
        /\ sess[s].path = "/noisyrejection"
        /\ sess[s].run["noisyRejectionSendResponseTimer"] = "fired"
        /\ sess[s].periodic >= 1
        /\ sess[s].last = 1
        /\ sess[s].destroys = 1
        /\ ~sess[s].errored
        /\ ~sess[s].lastCallback
        /\ sess[s].phase = "closed"

\* --------------------------------------------------------------------- C38
\* The handle variables the noisy behaviors assign.
NoisyTimers == Timers \ {"silentTimeoutTimer"}

\* C38: once the cancel-all of a session has run for a teardown (the response
\* has emitted 'close' or a stream error handler has run), no timer or
\* interval of a noisy behavior is pending in it, and no step schedules one.
C38_NoTimerAfterTeardown ==
    /\ [](\A s \in DOMAIN sess :
            (sess[s].resClosed \/ sess[s].errored) =>
               \A t \in NoisyTimers : sess[s].run[t] # "pending")
    /\ [][\A s \in DOMAIN sess :
            (sess'[s].resClosed \/ sess'[s].errored) =>
               \A t \in NoisyTimers :
                  sess'[s].run[t] = "pending" => sess[s].run[t] = "pending"]_vars

\* --------------------------------------------------------------------- C39
\* C39: a step that runs the /stop behavior writes the complete 200 response;
\* when the state is STOPPING or STOPPED, because another session or the
\* caller stopped the server before, its stop() call throws nothing, returns
\* the stored stop promise and changes neither the state nor the promises
\* nor the number of close() calls; and close() is called only by a stop()
\* in LISTENING, which leaves the state STOPPING, so once per stop cycle.
C39_StopRequestedTwice ==
    /\ [][\A s \in DOMAIN sess :
            (sess[s].path = "/stop" /\ Dispatches(s)) =>
               /\ sess'[s].head = 200
               /\ sess'[s].resContentType = "text/html; charset=UTF-8"
               /\ sess'[s].page = 1
               /\ sess'[s].ends = 1
               /\ serverState \in {STOPPING, STOPPED} =>
                     /\ ~crashed'
                     /\ lastCall' = Returned("stop", serverStopPromise)
                     /\ serverStopPromise # NULL
                     /\ closeCalls' = closeCalls
                     /\ UNCHANGED <<serverState, serverStopPromise, promises, listeners, native>>]_vars
    /\ [][closeCalls' # closeCalls =>
            /\ closeCalls' = closeCalls + 1
            /\ serverState = LISTENING
            /\ serverState' = STOPPING
            /\ lastCall' = Began("stop", serverStopPromise')]_vars
    /\ [](closeCalls <= listenCalls)

\* Two sessions requested /stop in one stop cycle: both ran the behavior and
\* got the 200 response, one close() was called, the server has stopped.
C39_Witness ==
    /\ \A s \in DOMAIN sess :
          /\ sess[s].path = "/stop"
          /\ sess[s].dispatched = 1
          /\ sess[s].reqEnded
          /\ sess[s].head = 200
          /\ sess[s].ends = 1
    /\ Cardinality(DOMAIN sess) = 2
    /\ listenCalls = 1
    /\ closeCalls = 1
    /\ serverState = STOPPED
    /\ ~crashed

====
